---------------------------- MODULE Spec2Model ----------------------------
(***************************************************************************)
(* A model of bk7231tools' serial tooling: the packet codec, the command   *)
(* engine of protocol.py, the linking/detection sequence of linking.py    *)
(* and the streamed flash read/program engine of cmd_hl_flash.py.          *)
(*                                                                         *)
(* Conventions.                                                            *)
(*  - A byte string is a sequence of numbers 0..255.                       *)
(*  - A 32-bit CRC is kept as its four little-endian bytes (TLC's integers *)
(*    are 32-bit signed, and this is also the value's form on the wire).   *)
(*  - Flash geometry is scaled: a sector holds SectorSize bytes where the  *)
(*    chip has 4096, a FlashWrite block WriteBlock bytes where the chip    *)
(*    has 256.  All address arithmetic is written with \div and %, so it   *)
(*    is the code's mask arithmetic for any sector size.                   *)
(*  - Each subsystem has its own variables and its own specification; a    *)
(*    specification leaves the other subsystems' variables untouched.      *)
(***************************************************************************)
EXTENDS Integers, Sequences, FiniteSets, TLC

VARIABLES
    \* ---- packet codec (SpecCodec)
    packet,         \* the packet handed to encode()
    encoded,        \* encode()'s result, <<>> before the call
    \* ---- command engine (SpecCommand)
    cmd,            \* the packet handed to command()
    support_optional,
    rx,             \* bytes pending on the serial channel
    rx0,            \* the bytes pending when command() was called
    tx,             \* bytes written to the serial channel
    cpc,            \* command()'s position
    size,           \* command()'s local 'size'
    response,       \* command()'s local 'response'
    result,         \* what command() returned or raised
    \* ---- the session's fields (base/data.py)
    protocol_type,
    bootloader_type,
    flash_size,
    flash_erase_checked,
    flash_id,       \* <<>> for None
    \* ---- the chip
    flash,          \* flash memory: the byte of address a is flash[a + 1]
    chip_id,        \* the flash chip's JEDEC id, three bytes
    chip_sr,        \* the flash chip's status register
    log,            \* the commands the chip has received, oldest first
    \* ---- flash_read / flash_read_bytes (SpecFlashRead)
    rd,             \* the generator's frame: arguments, locals, position
    chunks,         \* the chunks it has yielded
    \* ---- program_flash (SpecProgram)
    pg,             \* the generator's frame: arguments, locals, position
    yields,         \* the values it has yielded
    \* ---- linking and detection (SpecLink)
    dev,            \* what the chip answers besides its flash: how far its
                    \* CheckCRC counts, its bootloader's CRC, SCTRL_CHIP_ID
                    \* and boot version
    ident,          \* the session's chip_type, bk_chip_id, bk_boot_version
    serial_baudrate,\* serial.baudrate, the host's side of the channel
    wire,           \* what happened on the channel: frames written, host baud
                    \* rate changes, responses read, each with the host rate
    conn,           \* connect()'s frame: arguments, locals, position
    \* ---- the low-level chip and flash commands (SpecFlashOps)
    boot_protection_bypass,
    serial_timeout, \* serial.timeout, in command timeouts
    faults,         \* the faults the chip has in store, see Fault
    ll,             \* the low-level call made: name, arguments, outcome
    \* ---- the reset lines (SpecReset) and the dump analysis
    lines,          \* serial.rts and serial.dtr
    an,             \* the analysis call made: name, input, outcome
    \* ---- the session's hold on the serial port (SpecClose)
    serial          \* self.serial: whether it is the port or None, and the
                    \* port's `closed`

codecVars == <<packet, encoded>>
engVars   == <<cmd, support_optional, rx, rx0, tx, cpc, size, response, result>>
cmdVars   == <<protocol_type, engVars>>
sessVars  == <<protocol_type, bootloader_type, flash_size, flash_erase_checked,
               flash_id>>
chipVars  == <<flash, chip_id, chip_sr, log>>
readVars  == <<rd, chunks>>
progVars  == <<pg, yields>>
linkVars  == <<dev, ident, serial_baudrate, wire, conn>>
opsVars   == <<boot_protection_bypass, serial_timeout, faults, ll>>
auxVars   == <<lines, an, serial>>
\* what the codec and the command engine leave alone
nonCmd    == <<bootloader_type, flash_size, flash_erase_checked, flash_id,
               chipVars, readVars, progVars, linkVars, opsVars, auxVars>>
\* what the flash operations leave alone
nonFlash  == <<codecVars, engVars, dev, ident, serial_baudrate, conn, opsVars,
               auxVars>>
vars      == <<codecVars, engVars, sessVars, chipVars, readVars, progVars,
               linkVars, opsVars, auxVars>>

-----------------------------------------------------------------------------
(* Bytes and integers *)

Byte == 0..255

Min(a, b) == IF a < b THEN a ELSE b

RECURSIVE Pow256(_)
Pow256(k) == IF k = 0 THEN 1 ELSE 256 * Pow256(k - 1)

\* struct.pack("<B"|"<H"|"<I", n): n as `width` little-endian bytes
LE(n, width) == [i \in 1..width |-> (n \div Pow256(i - 1)) % 256]

\* struct.unpack of a little-endian unsigned field
RECURSIVE FromLE(_)
FromLE(bs) == IF bs = <<>> THEN 0 ELSE Head(bs) + 256 * FromLE(Tail(bs))

\* Python's b[lo:hi] for 0 <= lo (0-based, hi exclusive, clipped to len(b))
Slice(b, lo, hi) ==
    LET h == Min(hi, Len(b))
    IN  IF lo >= h THEN <<>> ELSE SubSeq(b, lo + 1, h)

\* Python's b[-n:]
Suffix(b, n) == IF Len(b) <= n THEN b ELSE SubSeq(b, Len(b) - n + 1, Len(b))

Fill(n, v) == [i \in 1..n |-> v]

RECURSIVE Xor(_, _)
Xor(a, b) ==
    IF a = 0 THEN b
    ELSE IF b = 0 THEN a
    ELSE ((a + b) % 2) + (2 * Xor(a \div 2, b \div 2))

-----------------------------------------------------------------------------
(* CRC-32 on 32-bit words kept as four little-endian bytes: crc.py *)

Xor32(a, b) == <<Xor(a[1], b[1]), Xor(a[2], b[2]), Xor(a[3], b[3]), Xor(a[4], b[4])>>

\* w ^ 0xFFFFFFFF
Not32(w) == <<255 - w[1], 255 - w[2], 255 - w[3], 255 - w[4]>>

\* w >> 1
Shr1(w) == <<(w[1] \div 2) + ((w[2] % 2) * 128),
             (w[2] \div 2) + ((w[3] % 2) * 128),
             (w[3] \div 2) + ((w[4] % 2) * 128),
             w[4] \div 2>>

\* w >> 8
Shr8(w) == <<w[2], w[3], w[4], 0>>

\* 0xEDB88320
CRC_POLY == <<32, 131, 184, 237>>

\* the inner loop that fills crc32_table: j rounds on c
RECURSIVE TableRounds(_, _)
TableRounds(c, j) ==
    IF j = 0 THEN c
    ELSE TableRounds(IF c[1] % 2 = 1 THEN Xor32(CRC_POLY, Shr1(c)) ELSE Shr1(c),
                     j - 1)

\* crc32_table, built once: entry i is crc32_table[i + 1]
crc32_table ==
    LET t == [n \in 1..256 |-> TableRounds(<<n - 1, 0, 0, 0>>, 8)]
    IN  SubSeq(t, 1, 256)

\* crc32_ver2(crc, buf): the table-driven update, no pre- or post-inversion
\* (comparing crc with <<>> makes TLC evaluate it at every byte instead of
\* nesting the unevaluated updates)
RECURSIVE crc32_ver2(_, _)
crc32_ver2(crc, buf) ==
    IF buf = <<>> \/ crc = <<>> THEN crc
    ELSE crc32_ver2(Xor32(Shr8(crc), crc32_table[Xor(crc[1], Head(buf)) + 1]),
                    Tail(buf))

\* binascii.crc32(data, crc): the running CRC-32 with both inversions
crc32(data, crc) == Not32(crc32_ver2(Not32(crc), data))

ZeroCrc == <<0, 0, 0, 0>>

-----------------------------------------------------------------------------
(* Packets: serial/base/packets.py *)

PACKET_CMND_PREAMBLE == <<1, 224, 252>>     \* 01 E0 FC
PACKET_CMND_LONG     == <<255, 244>>        \* FF F4
PACKET_RESP_PREAMBLE == <<4, 14>>           \* 04 0E
PACKET_RESP_DATA     == <<1, 224, 252>>     \* 01 E0 FC
PACKET_RESP_LONG     == <<244>>             \* F4

\* One row per packet class: CODE, FORMAT (one struct character per element,
\* "$" = the trailing raw bytes field), IS_LONG, HAS_RESP_OTHER and
\* HAS_RESP_SAME (a slice <<start, stop>>, <<>> for None).
PacketClass(code, format, is_long, other, same) ==
    [CODE |-> code, FORMAT |-> format, IS_LONG |-> is_long,
     HAS_RESP_OTHER |-> other, HAS_RESP_SAME |-> same]

PacketClasses ==
    [ BkLinkCheckCmnd       |-> PacketClass(0,  <<>>, FALSE, TRUE, <<>>),
      BkLinkCheckResp       |-> PacketClass(1,  <<"B">>, FALSE, FALSE, <<>>),
      BkWriteRegCmnd        |-> PacketClass(1,  <<"<", "I", "I">>, FALSE, TRUE, <<0, 8>>),
      BkWriteRegResp        |-> PacketClass(1,  <<"<", "I", "I">>, FALSE, FALSE, <<>>),
      BkReadRegCmnd         |-> PacketClass(3,  <<"<", "I">>, FALSE, TRUE, <<0, 4>>),
      BkReadRegResp         |-> PacketClass(3,  <<"<", "I", "I">>, FALSE, FALSE, <<>>),
      BkRebootCmnd          |-> PacketClass(14, <<"B">>, FALSE, FALSE, <<>>),
      BkSetBaudRateCmnd     |-> PacketClass(15, <<"<", "I", "B">>, FALSE, FALSE, <<0, 5>>),
      BkCheckCrcCmnd        |-> PacketClass(16, <<"<", "I", "I">>, FALSE, TRUE, <<>>),
      BkCheckCrcResp        |-> PacketClass(16, <<"<", "I">>, FALSE, FALSE, <<>>),
      BkBootVersionCmnd     |-> PacketClass(17, <<>>, FALSE, TRUE, <<>>),
      BkBootVersionResp     |-> PacketClass(17, <<"$">>, FALSE, FALSE, <<>>),
      BkFlashWriteCmnd      |-> PacketClass(6,  <<"<", "I", "$">>, TRUE, TRUE, <<1, 5>>),
      BkFlashWriteResp      |-> PacketClass(6,  <<"<", "B", "I", "B">>, FALSE, FALSE, <<>>),
      BkFlashWrite4KCmnd    |-> PacketClass(7,  <<"<", "I", "$">>, TRUE, TRUE, <<1, 5>>),
      BkFlashWrite4KResp    |-> PacketClass(7,  <<"<", "B", "I">>, FALSE, FALSE, <<>>),
      BkFlashRead4KCmnd     |-> PacketClass(9,  <<"<", "I">>, TRUE, TRUE, <<1, 5>>),
      BkFlashRead4KResp     |-> PacketClass(9,  <<"<", "B", "I", "$">>, FALSE, FALSE, <<>>),
      BkFlashReg8ReadCmnd   |-> PacketClass(12, <<"B">>, TRUE, TRUE, <<1, 2>>),
      BkFlashReg8ReadResp   |-> PacketClass(12, <<"B", "B", "B">>, FALSE, FALSE, <<>>),
      BkFlashReg8WriteCmnd  |-> PacketClass(13, <<"B", "B">>, TRUE, TRUE, <<1, 3>>),
      BkFlashReg8WriteResp  |-> PacketClass(13, <<"B", "B", "B">>, FALSE, FALSE, <<>>),
      BkFlashReg16WriteCmnd |-> PacketClass(13, <<"<", "B", "H">>, TRUE, TRUE, <<1, 4>>),
      BkFlashReg16WriteResp |-> PacketClass(13, <<"<", "B", "B", "H">>, FALSE, FALSE, <<>>),
      BkFlashReg24ReadCmnd  |-> PacketClass(14, <<"<", "I">>, TRUE, TRUE, <<>>),
      BkFlashReg24ReadResp  |-> PacketClass(14, <<"<", "B", "x", "B", "B", "B">>, FALSE, FALSE, <<>>),
      BkFlashEraseBlockCmnd |-> PacketClass(15, <<"<", "B", "I">>, TRUE, FALSE, <<1, 6>>) ]

\* RESPONSE_TABLE: the response class of a command class
RESPONSE_TABLE ==
    [ BkLinkCheckCmnd       |-> "BkLinkCheckResp",
      BkWriteRegCmnd        |-> "BkWriteRegResp",
      BkReadRegCmnd         |-> "BkReadRegResp",
      BkCheckCrcCmnd        |-> "BkCheckCrcResp",
      BkBootVersionCmnd     |-> "BkBootVersionResp",
      BkFlashWriteCmnd      |-> "BkFlashWriteResp",
      BkFlashWrite4KCmnd    |-> "BkFlashWrite4KResp",
      BkFlashRead4KCmnd     |-> "BkFlashRead4KResp",
      BkFlashReg8ReadCmnd   |-> "BkFlashReg8ReadResp",
      BkFlashReg8WriteCmnd  |-> "BkFlashReg8WriteResp",
      BkFlashReg16WriteCmnd |-> "BkFlashReg16WriteResp",
      BkFlashReg24ReadCmnd  |-> "BkFlashReg24ReadResp" ]

\* A packet instance: its class, its integer fields in declaration order and
\* (for a "$" format) its trailing bytes field.
Pkt(cls, fields, data) == [cls |-> cls, fields |-> fields, data |-> data]

FormatWidth(c) == CASE c = "B" -> 1 [] c = "H" -> 2 [] c = "I" -> 4

\* struct.calcsize(fmt)
RECURSIVE calcsize(_)
calcsize(fmt) ==
    IF fmt = <<>> THEN 0
    ELSE IF Head(fmt) = "<" THEN calcsize(Tail(fmt))
    ELSE IF Head(fmt) = "x" THEN 1 + calcsize(Tail(fmt))
    ELSE FormatWidth(Head(fmt)) + calcsize(Tail(fmt))

\* struct.pack(fmt, *fields)
RECURSIVE pack(_, _)
pack(fmt, fields) ==
    IF fmt = <<>> THEN <<>>
    ELSE IF Head(fmt) = "<" THEN pack(Tail(fmt), fields)
    ELSE IF Head(fmt) = "x" THEN <<0>> \o pack(Tail(fmt), fields)
    ELSE LE(Head(fields), FormatWidth(Head(fmt))) \o pack(Tail(fmt), Tail(fields))

EndsWithDollar(fmt) == fmt # <<>> /\ fmt[Len(fmt)] = "$"

\* Packet.serialize
serialize(p) ==
    LET fmt == PacketClasses[p.cls].FORMAT
    IN  IF EndsWithDollar(fmt)
        THEN pack(SubSeq(fmt, 1, Len(fmt) - 1), p.fields) \o p.data
        ELSE pack(fmt, p.fields)

-----------------------------------------------------------------------------
(* BK7231Protocol.encode: serial/protocol.py *)

\* the same, with the long-marker threshold off by one
encode_gt(p) ==
    LET data == serialize(p)
        sz   == Len(data) + 1
        cls  == PacketClasses[p.cls]
    IN  PACKET_CMND_PREAMBLE
        \o (IF sz > 255 \/ cls.IS_LONG
            THEN PACKET_CMND_LONG \o LE(sz, 2)
            ELSE LE(sz, 1))
        \o LE(cls.CODE, 1)
        \o data

encode(p) ==
    LET data == serialize(p)
        sz   == Len(data) + 1
        cls  == PacketClasses[p.cls]
    IN  PACKET_CMND_PREAMBLE
        \o (IF sz >= 255 \/ cls.IS_LONG
            THEN PACKET_CMND_LONG \o LE(sz, 2)
            ELSE LE(sz, 1))
        \o LE(cls.CODE, 1)
        \o data

-----------------------------------------------------------------------------
(* SpecCodec: encode() applied to the packets of CodecPackets *)

BaudRates  == {115200, 460800, 921600, 1500000}
DelaysMs   == {0, 20, 255}
CodecAddrs == {0, 69632, 2166784, 2093056}    \* 0, 0x11000, 0x211000, 0x1FF000
BodySizes  == {0, 1, 252, 253, 254, 255, 256}

CodecPackets ==
    {Pkt("BkLinkCheckCmnd", <<>>, <<>>), Pkt("BkBootVersionCmnd", <<>>, <<>>),
     Pkt("BkRebootCmnd", <<165>>, <<>>)}
    \cup {Pkt("BkSetBaudRateCmnd", <<b, d>>, <<>>) : b \in BaudRates, d \in DelaysMs}
    \cup {Pkt("BkReadRegCmnd", <<a>>, <<>>) : a \in CodecAddrs}
    \cup {Pkt("BkCheckCrcCmnd", <<a, a + 256>>, <<>>) : a \in CodecAddrs}
    \cup {Pkt("BkFlashRead4KCmnd", <<a>>, <<>>) : a \in CodecAddrs}
    \cup {Pkt("BkFlashEraseBlockCmnd", <<e, a>>, <<>>) : e \in {32, 216}, a \in CodecAddrs}
    \cup {Pkt("BkFlashWriteCmnd", <<a>>, Fill(n, 90)) : a \in CodecAddrs, n \in BodySizes}
    \cup {Pkt("BkBootVersionResp", <<>>, Fill(n, v)) : n \in BodySizes, v \in {0, 255}}

\* the session's fields as the class declares them (and an empty chip)
SessDefaults ==
    /\ bootloader_type = "None"
    /\ flash_size = 0
    /\ flash_erase_checked = FALSE
    /\ flash_id = <<>>

FlashIdle ==
    /\ flash = <<>> /\ chip_id = <<>> /\ chip_sr = 0 /\ log = <<>>
    /\ rd = [pc |-> "idle"] /\ chunks = <<>>
    /\ pg = [pc |-> "idle"] /\ yields = <<>>

\* main.py: the channel is opened at link_baudrate
LinkBaud == 115200

\* a chip whose CheckCRC counts `span` bytes past the end offset it is given
\* and whose flash image holds everything it is asked about
Chip(span) ==
    [crc_span |-> span, boot_crc |-> <<>>, reg_id |-> 0, boot_version |-> <<>>]

\* data.py: chip_type, bk_chip_id and bk_boot_version are None
IdentDefaults ==
    [chip_type |-> "None", bk_chip_id |-> -1, bk_boot_version |-> <<>>]

LinkIdle ==
    /\ ident = IdentDefaults
    /\ serial_baudrate = LinkBaud
    /\ wire = <<>>
    /\ conn = [pc |-> "idle"]

\* main.py: the channel is opened with timeout = cmnd_timeout
cmnd_timeout == 1

\* main.py 30-34: the session holds the port it has opened
SerialOpen == [held |-> TRUE, closed |-> FALSE]

\* the reset lines released; no analysis call made
AuxIdle ==
    /\ lines = [rts |-> FALSE, dtr |-> FALSE] /\ serial = SerialOpen
    /\ an = [pc |-> "idle"]

\* data.py: the bypass is on; a chip without faults; no low-level call made
OpsIdle ==
    /\ AuxIdle
    /\ boot_protection_bypass = TRUE
    /\ serial_timeout = cmnd_timeout
    /\ faults = <<>>
    /\ ll = [pc |-> "idle"]

CmdIdle ==
    /\ cmd = Pkt("BkLinkCheckCmnd", <<>>, <<>>)
    /\ support_optional = FALSE
    /\ rx = <<>> /\ rx0 = <<>> /\ tx = <<>>
    /\ cpc = "idle" /\ size = 0 /\ response = <<>> /\ result = "none"

CodecIdle == packet = Pkt("BkLinkCheckCmnd", <<>>, <<>>) /\ encoded = <<>>

CodecInit ==
    /\ packet \in CodecPackets
    /\ encoded = <<>>
    /\ protocol_type = "UNKNOWN"
    /\ CmdIdle /\ SessDefaults /\ FlashIdle
    /\ dev = Chip(0) /\ LinkIdle /\ OpsIdle

Encode ==
    /\ encoded = <<>>
    /\ encoded' = encode(packet)
    /\ UNCHANGED <<packet, cmdVars, nonCmd>>

CodecNext == Encode

SpecCodec == CodecInit /\ [][CodecNext]_vars

\* C4: encode(packet) is 01 E0 FC, the length marker, the code byte and the
\* serialized body, with length = len(body)+1; the marker is FF F4 and the
\* length as 16-bit little-endian when the packet is long or length >= 0xFF,
\* one length byte otherwise.  LinkCheck encodes to 01 E0 FC 01 00 and
\* SetBaudRate(921600, 20) to 01 E0 FC 06 0F 00 10 0E 00 14.
C4_EncodeFrame ==
    encoded # <<>> =>
        LET body   == serialize(packet)
            length == Len(body) + 1
            long   == PacketClasses[packet.cls].IS_LONG \/ length >= 255
            marker == IF long
                      THEN <<255, 244, length % 256, length \div 256>>
                      ELSE <<length>>
        IN  /\ encoded = <<1, 224, 252>> \o marker
                         \o <<PacketClasses[packet.cls].CODE>> \o body
            /\ packet = Pkt("BkLinkCheckCmnd", <<>>, <<>>)
                  => encoded = <<1, 224, 252, 1, 0>>
            /\ packet = Pkt("BkSetBaudRateCmnd", <<921600, 20>>, <<>>)
                  => encoded = <<1, 224, 252, 6, 15, 0, 16, 14, 0, 20>>

\* a short-class packet whose size byte would be exactly 0xFF has been
\* encoded (the first size that takes the long form)
C4_Witness ==
    /\ encoded # <<>>
    /\ ~PacketClasses[packet.cls].IS_LONG
    /\ Len(serialize(packet)) + 1 = 255

-----------------------------------------------------------------------------
(* BK7231Protocol: serial/protocol.py *)

\* ProtocolType: the (code, is_long) pairs of each member (SHORT = FALSE,
\* LONG = TRUE)
ProtocolType ==
    [ UNKNOWN     |-> {},
      FULL        |-> {<<1, FALSE>>, <<3, FALSE>>, <<14, FALSE>>, <<15, FALSE>>,
                       <<16, FALSE>>, <<112, FALSE>>, <<170, FALSE>>,
                       <<6, TRUE>>, <<7, TRUE>>, <<8, TRUE>>, <<9, TRUE>>,
                       <<10, TRUE>>, <<11, TRUE>>, <<12, TRUE>>, <<13, TRUE>>,
                       <<14, TRUE>>, <<15, TRUE>>},
      BASIC_TUYA  |-> {<<14, FALSE>>, <<15, FALSE>>, <<16, FALSE>>, <<17, FALSE>>,
                       <<6, TRUE>>, <<7, TRUE>>, <<9, TRUE>>, <<15, TRUE>>},
      BASIC_BEKEN |-> {<<14, FALSE>>, <<15, FALSE>>, <<16, FALSE>>,
                       <<6, TRUE>>, <<7, TRUE>>, <<9, TRUE>>, <<15, TRUE>>} ]

\* require_protocol: TRUE when it raises NotImplementedError
require_protocol(pt, code, is_long) ==
    IF pt = "UNKNOWN" THEN FALSE
    ELSE <<code, is_long>> \notin ProtocolType[pt]

\* check_protocol: the Python value it returns ("None" when the function
\* falls off its end)
check_protocol(pt, code, is_long) ==
    IF pt = "UNKNOWN" THEN "True"
    ELSE IF <<code, is_long>> \notin ProtocolType[pt] THEN "False"
    ELSE "None"

\* Python truth of a returned value
Truthy(v) == v = "True"

\* Serial.read_until(expected): bytes up to and including the first place
\* where the line read so far ends with `expected`; all pending bytes when
\* there is none (the read times out).
read_until(buf, expected) ==
    LET n    == Len(expected)
        hits == {k \in n..Len(buf) : SubSeq(buf, k - n + 1, k) = expected}
        k    == IF hits = {} THEN Len(buf)
                ELSE CHOOSE h \in hits : \A g \in hits : h <= g
    IN  [data |-> SubSeq(buf, 1, k), rest |-> SubSeq(buf, k + 1, Len(buf))]

\* Serial.read(count) for count # 0: at most count pending bytes, none for
\* a negative count
read_count(buf, count) ==
    LET k == IF count < 0 THEN 0 ELSE Min(count, Len(buf))
    IN  [data |-> SubSeq(buf, 1, k), rest |-> SubSeq(buf, k + 1, Len(buf))]

\* BK7231Protocol.read() with neither count nor until (and read(count=0),
\* which takes the same branch): one byte as an int, 0 when none is pending
read_byte(buf) ==
    [value |-> IF buf = <<>> THEN 0 ELSE Head(buf),
     rest  |-> IF buf = <<>> THEN <<>> ELSE Tail(buf)]

\* Packet.deserialize succeeds on `data` (struct.unpack raises struct.error
\* otherwise)
CanDeserialize(cls, data) ==
    LET fmt == PacketClasses[cls].FORMAT
    IN  IF EndsWithDollar(fmt)
        THEN Len(data) >= calcsize(SubSeq(fmt, 1, Len(fmt) - 1))
        ELSE Len(data) = calcsize(fmt)

\* the response code command() waits for
response_code(p) ==
    IF PacketClasses[p.cls].HAS_RESP_SAME # <<>>
    THEN PacketClasses[p.cls].CODE
    ELSE PacketClasses[RESPONSE_TABLE[p.cls]].CODE

\* the echo check of command(): response[part] = command[:check_len]
EchoMatches(p, resp) ==
    LET part == PacketClasses[p.cls].HAS_RESP_SAME
    IN  Slice(resp, part[1], part[2]) = Slice(serialize(p), 0, part[2] - part[1])

-----------------------------------------------------------------------------
(* SpecCommand: one call of command(cmd, support_optional=...) against a    *)
(* channel that delivers the bytes of RxChoices(cmd).                      *)

MaxNoise == 3

NoiseBytes == {4, 14, 1, 255}

RECURSIVE SeqsUpTo(_, _)
SeqsUpTo(S, n) ==
    IF n = 0 THEN {<<>>}
    ELSE LET shorter == SeqsUpTo(S, n - 1)
         IN  shorter \cup {<<x>> \o q : x \in S, q \in {r \in shorter : Len(r) = n - 1}}

PageBytes == <<171, 205>>

CmdPackets ==
    { Pkt("BkLinkCheckCmnd", <<>>, <<>>),
      Pkt("BkRebootCmnd", <<165>>, <<>>),
      Pkt("BkSetBaudRateCmnd", <<921600, 20>>, <<>>),
      Pkt("BkFlashRead4KCmnd", <<69632>>, <<>>) }

\* a response frame as the chip sends it
RespFrame(is_long, code, payload) ==
    IF is_long
    THEN PACKET_RESP_PREAMBLE \o <<255>> \o PACKET_RESP_DATA \o PACKET_RESP_LONG
         \o LE(Len(payload) + 1, 2) \o <<code>> \o payload
    ELSE PACKET_RESP_PREAMBLE \o <<Len(payload) + 4>> \o PACKET_RESP_DATA
         \o <<code>> \o payload

\* the payload the chip answers `p` with
GoodPayload(p) ==
    CASE p.cls = "BkLinkCheckCmnd"   -> <<0>>
      [] p.cls = "BkSetBaudRateCmnd" -> serialize(p)
      [] p.cls = "BkFlashRead4KCmnd" -> <<0>> \o LE(p.fields[1], 4) \o PageBytes
      [] OTHER -> <<>>

\* the same answer for another baud rate / flash address
OtherPayload(p) ==
    CASE p.cls = "BkLinkCheckCmnd"   -> <<1>>
      [] p.cls = "BkSetBaudRateCmnd" -> LE(115200, 4) \o <<20>>
      [] p.cls = "BkFlashRead4KCmnd" -> <<0>> \o LE(p.fields[1] + 4096, 4) \o PageBytes
      [] OTHER -> <<>>

GoodFrame(p) ==
    RespFrame(PacketClasses[p.cls].IS_LONG, response_code(p), GoodPayload(p))

Frames(p) ==
    LET long == PacketClasses[p.cls].IS_LONG
        good == GoodFrame(p)
    IN  { <<>>,
          good,
          RespFrame(long, response_code(p), OtherPayload(p)),
          RespFrame(long, response_code(p), <<>>),
          SubSeq(good, 1, Len(good) - 1),
          SubSeq(good, 1, Len(good) - Len(GoodPayload(p))),
          RespFrame(long, 17, <<7>>) \o good }

RxChoices(p) == {n \o f : n \in SeqsUpTo(NoiseBytes, MaxNoise), f \in Frames(p)}

ExpectsResponse(p) ==
    PacketClasses[p.cls].HAS_RESP_OTHER \/ PacketClasses[p.cls].HAS_RESP_SAME # <<>>

CommandInit ==
    /\ protocol_type \in DOMAIN ProtocolType
    /\ cmd \in CmdPackets
    /\ support_optional \in BOOLEAN
    /\ rx = <<>> /\ rx0 = <<>> /\ tx = <<>>
    /\ cpc = "start" /\ size = 0 /\ response = <<>> /\ result = "none"
    /\ CodecIdle /\ SessDefaults /\ FlashIdle
    /\ dev = Chip(0) /\ LinkIdle /\ OpsIdle

Finish(r) == cpc' = "done" /\ result' = r

\* command(): the protocol check, write(encode(packet)) and the early return
CommandSend ==
    /\ cpc = "start"
    /\ LET cls == PacketClasses[cmd.cls] IN
       IF support_optional /\ ~Truthy(check_protocol(protocol_type, cls.CODE, cls.IS_LONG))
       THEN Finish("False") /\ UNCHANGED tx
       ELSE IF ~support_optional /\ require_protocol(protocol_type, cls.CODE, cls.IS_LONG)
       THEN Finish("NotImplementedError") /\ UNCHANGED tx
       ELSE /\ tx' = tx \o encode(cmd)
            /\ IF ExpectsResponse(cmd)
               THEN cpc' = "await" /\ UNCHANGED result
               ELSE Finish("True")
    /\ UNCHANGED <<protocol_type, cmd, support_optional, rx, rx0, size, response, codecVars, nonCmd>>

\* the channel: the bytes that are pending when command() starts to read
Deliver ==
    /\ cpc = "await"
    /\ rx' \in RxChoices(cmd)
    /\ rx0' = rx'
    /\ cpc' = "preamble"
    /\ UNCHANGED <<protocol_type, cmd, support_optional, tx, size, response, result, codecVars, nonCmd>>

\* a scan that goes on to the size byte whether or not the preamble was found
ReadPreamble_no_raise ==
    /\ cpc = "preamble"
    /\ rx' = read_until(rx, PACKET_RESP_PREAMBLE).rest
    /\ cpc' = "size"
    /\ UNCHANGED <<protocol_type, cmd, support_optional, rx0, tx, size, response, result, codecVars, nonCmd>>

\* data = self.read(until=PACKET_RESP_PREAMBLE)
ReadPreamble ==
    /\ cpc = "preamble"
    /\ LET r == read_until(rx, PACKET_RESP_PREAMBLE) IN
       /\ rx' = r.rest
       /\ IF PACKET_RESP_PREAMBLE # Suffix(r.data, 2)
          THEN Finish("ValueError: No response received")
          ELSE cpc' = "size" /\ UNCHANGED result
    /\ UNCHANGED <<protocol_type, cmd, support_optional, rx0, tx, size, response, codecVars, nonCmd>>

\* size = self.read(); a long/short mismatch resumes the scan
ReadSize ==
    /\ cpc = "size"
    /\ LET r == read_byte(rx) IN
       /\ rx' = r.rest
       /\ size' = r.value
       /\ cpc' = IF PacketClasses[cmd.cls].IS_LONG # (r.value = 255)
                 THEN "preamble" ELSE "data"
    /\ UNCHANGED <<protocol_type, cmd, support_optional, rx0, tx, response, result, codecVars, nonCmd>>

\* self.read(until=PACKET_RESP_DATA) must be exactly 01 E0 FC
ReadData ==
    /\ cpc = "data"
    /\ LET r == read_until(rx, PACKET_RESP_DATA) IN
       /\ rx' = r.rest
       /\ cpc' = IF r.data # PACKET_RESP_DATA THEN "preamble"
                 ELSE IF PacketClasses[cmd.cls].IS_LONG THEN "long" ELSE "code"
    /\ UNCHANGED <<protocol_type, cmd, support_optional, rx0, tx, size, response, result, codecVars, nonCmd>>

\* long frames: F4, then unpack("<HB", self.read(count=3))
ReadLong ==
    /\ cpc = "long"
    /\ LET r == read_until(rx, PACKET_RESP_LONG) IN
       IF r.data # PACKET_RESP_LONG
       THEN rx' = r.rest /\ cpc' = "preamble" /\ UNCHANGED <<size, result>>
       ELSE LET h == read_count(r.rest, 3) IN
            /\ rx' = h.rest
            /\ IF Len(h.data) # 3
               THEN Finish("struct.error") /\ UNCHANGED size
               ELSE /\ size' = FromLE(SubSeq(h.data, 1, 2)) - 1
                    /\ cpc' = IF h.data[3] = response_code(cmd)
                              THEN "payload" ELSE "preamble"
                    /\ UNCHANGED result
    /\ UNCHANGED <<protocol_type, cmd, support_optional, rx0, tx, response, codecVars, nonCmd>>

\* short frames: code = self.read(); size -= 4
ReadCode ==
    /\ cpc = "code"
    /\ LET r == read_byte(rx) IN
       /\ rx' = r.rest
       /\ size' = size - 4
       /\ cpc' = IF r.value = response_code(cmd) THEN "payload" ELSE "preamble"
    /\ UNCHANGED <<protocol_type, cmd, support_optional, rx0, tx, response, result, codecVars, nonCmd>>

\* response = self.read(count=size), the echo check and the deserialization.
\* read(count=0) returns an int: slicing or unpacking it raises TypeError.
ReadPayload ==
    /\ cpc = "payload"
    /\ LET cls == PacketClasses[cmd.cls] IN
       IF size = 0
       THEN /\ rx' = read_byte(rx).rest
            /\ response' = <<>>
            /\ Finish("TypeError")
       ELSE LET r == read_count(rx, size) IN
            /\ rx' = r.rest
            /\ response' = r.data
            /\ IF cls.HAS_RESP_SAME # <<>> /\ ~EchoMatches(cmd, r.data)
               THEN Finish("ValueError: Invalid response data payload")
               ELSE IF cls.HAS_RESP_OTHER
               THEN IF CanDeserialize(RESPONSE_TABLE[cmd.cls], r.data)
                    THEN Finish("Response")
                    ELSE Finish("ValueError: Partial response received")
               ELSE Finish("True")
    /\ UNCHANGED <<protocol_type, cmd, support_optional, rx0, tx, size, codecVars, nonCmd>>

CommandNext ==
    \/ CommandSend
    \/ Deliver
    \/ ReadPreamble
    \/ ReadSize
    \/ ReadData
    \/ ReadLong
    \/ ReadCode
    \/ ReadPayload

SpecCommand == CommandInit /\ [][CommandNext]_vars

EndsWith(b, tail) == Len(b) >= Len(tail) /\ Suffix(b, Len(tail)) = tail

Succeeded == result \in {"True", "Response"}

\* the results command() produces once a frame header was accepted
PayloadResults ==
    {"True", "Response", "TypeError",
     "ValueError: Invalid response data payload",
     "ValueError: Partial response received"}

\* C3: if the pending bytes are arbitrary noise followed by one complete,
\* well-formed response frame for the command just sent, command() returns
\* that frame's payload; it fails only when no such frame is pending.
C3_NoiseThenFrame ==
    (cpc = "done" /\ ExpectsResponse(cmd) /\ EndsWith(rx0, GoodFrame(cmd))) =>
        /\ Succeeded
        /\ response = GoodPayload(cmd)

\* C5: for a HAS_RESP_SAME command with slice [a,b), command() succeeds only
\* if bytes [a,b) of the response payload equal the first b-a bytes of the
\* serialized command; otherwise it raises the wrong-echo error and returns
\* no response.
C5_EchoChecked ==
    (/\ cpc = "done"
     /\ PacketClasses[cmd.cls].HAS_RESP_SAME # <<>>
     /\ result \in PayloadResults) =>
        /\ Succeeded => EchoMatches(cmd, response)
        /\ ~EchoMatches(cmd, response)
              => result = "ValueError: Invalid response data payload"

\* C6: check_protocol(code, is_long) returns true exactly when the session's
\* ProtocolType contains (code, is_long) and false otherwise, require_protocol
\* raises exactly when check_protocol returns false, and so
\* command(packet, support_optional=true) writes the packet iff the protocol
\* contains it and returns false without writing otherwise.
C6_ProtocolMembership ==
    cpc # "start" =>
        LET cls       == PacketClasses[cmd.cls]
            contained == <<cls.CODE, cls.IS_LONG>> \in ProtocolType[protocol_type]
            checked   == check_protocol(protocol_type, cls.CODE, cls.IS_LONG)
        IN  /\ checked = IF contained THEN "True" ELSE "False"
            /\ require_protocol(protocol_type, cls.CODE, cls.IS_LONG) <=> checked = "False"
            /\ support_optional =>
                  IF contained
                  THEN tx = encode(cmd)
                  ELSE tx = <<>> /\ result = "False"

-----------------------------------------------------------------------------
(* Chips, protocols and bootloaders: serial/base/enums.py *)

BkChipType ==
    [ BK7231Q |-> 29233,     \* 0x7231
      BK7231U |-> 1,
      BK7231T |-> 467738,    \* 0x7231A
      BK7231N |-> 467740,    \* 0x7231C
      BK7238  |-> 29240,     \* 0x7238
      BK7252  |-> 29266 ]    \* 0x7252

\* BkProtocolType: the (code, is_long) pairs of each member (SHORT = FALSE,
\* LONG = TRUE)
BkProtocolType ==
    [ FULL        |-> {<<0, FALSE>>, <<1, FALSE>>, <<3, FALSE>>, <<14, FALSE>>,
                       <<15, FALSE>>, <<16, FALSE>>, <<112, FALSE>>, <<170, FALSE>>,
                       <<6, TRUE>>, <<7, TRUE>>, <<8, TRUE>>, <<9, TRUE>>,
                       <<10, TRUE>>, <<11, TRUE>>, <<12, TRUE>>, <<13, TRUE>>,
                       <<14, TRUE>>, <<15, TRUE>>},
      BASIC_BEKEN |-> {<<0, FALSE>>, <<14, FALSE>>, <<15, FALSE>>, <<16, FALSE>>,
                       <<6, TRUE>>, <<7, TRUE>>, <<9, TRUE>>, <<15, TRUE>>},
      BASIC_TUYA  |-> {<<0, FALSE>>, <<14, FALSE>>, <<15, FALSE>>, <<16, FALSE>>,
                       <<17, FALSE>>,
                       <<6, TRUE>>, <<7, TRUE>>, <<9, TRUE>>, <<15, TRUE>>} ]

BkBootloader(crc, chip, protocol, version, size_, lock) ==
    [crc |-> crc, chip |-> chip, protocol |-> protocol, version |-> version,
     flash_size |-> size_, crc_flash_protect_lock |-> lock]

\* BkBootloaderType, in declaration order; crc as little-endian bytes
BootloaderNames ==
    << "BK7231N_1_0_1", "BK7231Q_1", "BK7231Q_2", "BK7231S_1_0_1",
       "BK7231S_1_0_3", "BK7231S_1_0_5", "BK7231S_1_0_6", "BK7231U_1_0_6",
       "BK7252_0_1_3", "BK7252_SDK" >>

BkBootloaderType ==
    [ BK7231N_1_0_1 |-> BkBootloader(<<186, 145, 65, 225>>, "BK7231N", "FULL", "1.0.1", 0, FALSE),
      BK7231Q_1     |-> BkBootloader(<<246, 30, 35, 240>>, "BK7231Q", "BASIC_BEKEN", "None", 0, TRUE),
      BK7231Q_2     |-> BkBootloader(<<172, 62, 90, 255>>, "BK7231Q", "BASIC_BEKEN", "None", 0, TRUE),
      BK7231S_1_0_1 |-> BkBootloader(<<113, 168, 236, 193>>, "BK7231T", "BASIC_TUYA", "1.0.1", 2097152, TRUE),
      BK7231S_1_0_3 |-> BkBootloader(<<77, 228, 49, 75>>, "BK7231T", "BASIC_TUYA", "1.0.3", 2097152, TRUE),
      BK7231S_1_0_5 |-> BkBootloader(<<184, 193, 84, 186>>, "BK7231T", "BASIC_TUYA", "1.0.5", 2097152, TRUE),
      BK7231S_1_0_6 |-> BkBootloader(<<83, 201, 203, 229>>, "BK7231T", "BASIC_TUYA", "1.0.6", 2097152, TRUE),
      BK7231U_1_0_6 |-> BkBootloader(<<159, 1, 57, 39>>, "BK7231U", "BASIC_BEKEN", "1.0.6", 2097152, TRUE),
      BK7252_0_1_3  |-> BkBootloader(<<12, 181, 249, 57>>, "BK7252", "BASIC_BEKEN", "0.1.3", 0, TRUE),
      BK7252_SDK    |-> BkBootloader(<<38, 124, 162, 227>>, "BK7252", "BASIC_BEKEN", "None", 0, TRUE) ]

\* BkBootloaderType.get_by_crc: the first member with that crc, "None" if none
get_by_crc(crc) ==
    LET hits == {k \in 1..Len(BootloaderNames) :
                    BkBootloaderType[BootloaderNames[k]].crc = crc}
    IN  IF hits = {} THEN "None"
        ELSE BootloaderNames[CHOOSE k \in hits : \A j \in hits : k <= j]

\* The session's protocol gate on a packet class: whether protocol `pt`
\* contains the class's (CODE, IS_LONG); every packet passes while no
\* protocol has been adopted.
SessionSupports(pt, cls) ==
    \/ pt = "None"
    \/ <<PacketClasses[cls].CODE, PacketClasses[cls].IS_LONG>> \in BkProtocolType[pt]

-----------------------------------------------------------------------------
(* The chip as the flash operations see it, and the session's low-level    *)
(* flash commands: cmd_ll_chip.py, cmd_ll_flash.py.  The chip answers      *)
(* every command and stores every write.                                   *)

SectorSize == 4         \* stands for 4096 (0x1000)
WriteBlock == 2         \* stands for 256, the FlashWrite limit
NSectors   == 3

FlashBytes == NSectors * SectorSize

\* data.py: retries, not attempts
read_retries  == 20
write_retries == 3

\* data.py: crc_speed_bps = 400_000 bytes a second against cmnd_timeout = 1;
\* scaled like the sector, a CheckCRC over more than 5 bytes takes longer
\* than the command timeout
crc_speed_bps == 5

\* LINK_CHECKs sent before a wait_for_link timeout expires
MaxLinkTries == 2

\* EraseSize
SECTOR_4K == 32
BLOCK_64K == 216

RECURSIVE And(_, _)
And(a, b) ==
    IF a = 0 \/ b = 0 THEN 0
    ELSE ((a % 2) * (b % 2)) + (2 * And(a \div 2, b \div 2))

\* addr & ~0xFFF and addr & 0xFFF
SectorBase(addr)   == (addr \div SectorSize) * SectorSize
SectorOffset(addr) == addr % SectorSize

\* the bytes the chip holds at [lo, hi): addresses wrap at the end of flash
ChipBytes(mem, lo, hi) ==
    LET f == [k \in 1..(hi - lo) |-> mem[((lo + k - 1) % Len(mem)) + 1]]
    IN  SubSeq(f, 1, hi - lo)

\* the chip's CMD_CheckCRC: the table-driven CRC from 0xFFFFFFFF without the
\* final inversion, over [start, end + crc_span): a bootloader counts
\* [start, end), a BootROM [start, end].  A chip whose image in `flash` does
\* not hold its bootloader answers for the range at 0 from boot_crc.
ChipCheckCrc(m, start, end) ==
    IF start = 0 /\ m.dev.boot_crc # <<>> THEN Not32(m.dev.boot_crc)
    ELSE crc32_ver2(Not32(ZeroCrc),
                    ChipBytes(m.flash, start, end + m.dev.crc_span))

\* the chip's erase (one sector, or the 16 sectors of a 64K block) and writes
ChipErase(mem, size_, start) ==
    LET span == IF size_ = SECTOR_4K THEN SectorSize ELSE 16 * SectorSize
        f    == [a \in 1..Len(mem) |->
                    IF (a - 1) \div span = (start % Len(mem)) \div span
                    THEN 255 ELSE mem[a]]
    IN  SubSeq(f, 1, Len(mem))

ChipWrite(mem, start, data) ==
    LET f == [a \in 1..Len(mem) |->
                 IF \E k \in 1..Len(data) : (start + k - 1) % Len(mem) = a - 1
                 THEN data[((a - 1 - start) % Len(mem)) + 1] ELSE mem[a]]
    IN  SubSeq(f, 1, Len(mem))

\* One record carries the chip and the session through a chain of calls:
\* the chip (flash, id and sr of the flash chip, dev, the faults it has in
\* store), the session's fields, the host's baud rate and timeout, the
\* packets handed to command() (log), the channel's events (wire), the
\* exception raised ("" for none) and the callee's return value.
Sent(op, a, b) == [op |-> op, a |-> a, b |-> b]

Wire(ev, op, baud) == [ev |-> ev, op |-> op, baud |-> baud]

\* a frame written to the channel: its address fields as encoded, and the
\* channel timeout it was written under
WireFrame(op, baud, addrs, timeout) ==
    [ev |-> "write", op |-> op, baud |-> baud, addrs |-> addrs,
     timeout |-> timeout]

\* fix_addr translating whatever boot_protection_bypass says
fix_addr_always(m, addr) ==
    IF m.flash_size = 0 THEN addr ELSE addr + m.flash_size

\* fix_addr(addr)
fix_addr(m, addr) ==
    IF m.flash_size = 0 \/ ~m.boot_protection_bypass THEN addr
    ELSE addr + m.flash_size

\* The address fields of the frame written for the packet (op, a, b): the
\* engine passes every flash address through fix_addr when it places it in
\* the command (CheckCRC has two, the other flash commands one).
FrameAddrs(m, op, a, b) ==
    IF op = "CheckCrc" THEN <<fix_addr(m, a), fix_addr(m, b)>>
    ELSE IF op \in {"FlashRead4K", "FlashWrite", "FlashWrite4K", "FlashErase"}
    THEN <<fix_addr(m, a)>>
    ELSE <<>>

\* A fault the chip has in store for a command of `op`: it leaves the command
\* unanswered or answers it garbled ("silent": command() raises ValueError
\* and the chip has done nothing), or it answers in form without doing what
\* it was asked ("nop": a write that reports 0 bytes written, an erase or a
\* register write that does not take, a read that returns no data).
Fault(op, kind) == [op |-> op, kind |-> kind]

\* the chip's reaction to the next command of `op`
Reaction(pending, op) ==
    LET hits == {k \in 1..Len(pending) : pending[k].op = op}
    IN  IF hits = {} THEN "ok"
        ELSE pending[CHOOSE k \in hits : \A j \in hits : k <= j].kind

\* the faults left once that command was sent
Consume(pending, op) ==
    LET hits == {k \in 1..Len(pending) : pending[k].op = op}
        drop(k) == SubSeq(pending, 1, k - 1) \o SubSeq(pending, k + 1, Len(pending))
    IN  IF hits = {} THEN pending
        ELSE drop(CHOOSE k \in hits : \A j \in hits : k <= j)

\* command() running after_send before it writes the frame
command_switch_first(m, op, a, b, target) ==
    LET read(w, reaction) ==
            [w EXCEPT !.wire = w.wire \o <<Wire("read", op, w.serial_baudrate)>>,
                      !.faults = Consume(w.faults, op),
                      !.reply = reaction,
                      !.err = IF reaction = "silent" THEN "ValueError" ELSE w.err]
        after_send(w) ==
            IF target = 0 THEN w
            ELSE [w EXCEPT !.serial_baudrate = target,
                           !.wire = w.wire \o <<Wire("baudrate", op, target)>>]
        write(w, addrs) ==
            [w EXCEPT !.log = w.log \o <<Sent(op, a, b)>>,
                      !.sent = addrs,
                      !.wire = w.wire \o <<WireFrame(op, w.serial_baudrate, addrs,
                                                    w.timeout)>>]
    IN  read(write(after_send(m), FrameAddrs(m, op, a, b)), Reaction(m.faults, op))

\* command(packet, after_send) as the channel sees it: the frame is written,
\* after_send runs (set_baudrate's callback sets serial.baudrate to `target`;
\* 0 for no callback), the response is read.  `reply` is the chip's reaction;
\* the caller takes the answer from the chip, which acts on the addresses of
\* the frame (`sent`).
command(m, op, a, b, target) ==
    LET read(w, reaction) ==
            [w EXCEPT !.wire = w.wire \o <<Wire("read", op, w.serial_baudrate)>>,
                      !.faults = Consume(w.faults, op),
                      !.reply = reaction,
                      !.err = IF reaction = "silent" THEN "ValueError" ELSE w.err]
        after_send(w) ==
            IF target = 0 THEN w
            ELSE [w EXCEPT !.serial_baudrate = target,
                           !.wire = w.wire \o <<Wire("baudrate", op, target)>>]
        write(w, addrs) ==
            [w EXCEPT !.log = w.log \o <<Sent(op, a, b)>>,
                      !.sent = addrs,
                      !.wire = w.wire \o <<WireFrame(op, w.serial_baudrate, addrs,
                                                    w.timeout)>>]
    IN  read(after_send(write(m, FrameAddrs(m, op, a, b))), Reaction(m.faults, op))

Raise(m, e) == [m EXCEPT !.err = e]

IsValueError(m) == m.err \in {"ValueError", "ChipCrcMismatch"}

\* has_crc_flash_protect_lock
has_crc_flash_protect_lock(bt, pt) ==
    IF bt # "None" THEN BkBootloaderType[bt].crc_flash_protect_lock
    ELSE pt # "FULL"

\* wait_for_link(timeout=cmnd_timeout) as read_flash_range_crc calls it: the
\* channel timeout is 5 ms (0 here) while LINK_CHECK is sent until it is
\* answered or `tries` reaches MaxLinkTries; errors are swallowed and the
\* result is ignored by the caller
RECURSIVE wait_for_link_again(_, _, _)
wait_for_link_again(m, tm_prev, tries) ==
    LET answered(w) ==
            IF w.reply = "ok" \/ tries + 1 >= MaxLinkTries
            THEN [w EXCEPT !.err = "", !.timeout = tm_prev]
            ELSE wait_for_link_again([w EXCEPT !.err = ""], tm_prev, tries + 1)
    IN  answered(command([m EXCEPT !.timeout = 0], "LinkCheck", 0, 0, 0))

\* read_flash_range_crc without the end fix for the BootROM
read_flash_range_crc_no_fix(m, start, end) ==
    IF start = end \/ start > end THEN Raise(m, "ValueError")
    ELSE LET timeout_current == m.timeout
             relink(w) ==
                 IF has_crc_flash_protect_lock(m.bootloader_type, m.protocol_type)
                 THEN wait_for_link_again(w, w.timeout, 0)
                 ELSE w
             answered(w) ==
                 IF w.err # "" THEN w
                 ELSE [relink([w EXCEPT !.timeout = timeout_current])
                          EXCEPT !.ret = Not32(ChipCheckCrc(w, w.sent[1], w.sent[2]))]
         IN  answered(command(
                 IF end - start > timeout_current * crc_speed_bps
                 THEN [m EXCEPT !.timeout = ((end - start) + crc_speed_bps - 1)
                                               \div crc_speed_bps]
                 ELSE m,
                 "CheckCrc", start, end, 0))

\* read_flash_range_crc(start, end): the checks, the timeout raised to
\* ceil((end - start) / crc_speed_bps) when that quotient exceeds it, the
\* command, the timeout put back, the LINK_CHECK for chips that lock the
\* flash after CheckCRC.  Nothing after the command runs when it raises.
read_flash_range_crc(m, start, end) ==
    IF start = end \/ start > end THEN Raise(m, "ValueError")
    ELSE LET timeout_current == m.timeout
             e == IF m.protocol_type = "FULL" THEN end - 1 ELSE end
             relink(w) ==
                 IF has_crc_flash_protect_lock(m.bootloader_type, m.protocol_type)
                 THEN wait_for_link_again(w, w.timeout, 0)
                 ELSE w
             answered(w) ==
                 IF w.err # "" THEN w
                 ELSE [relink([w EXCEPT !.timeout = timeout_current])
                          EXCEPT !.ret = Not32(ChipCheckCrc(w, w.sent[1], w.sent[2]))]
         IN  answered(command(
                 IF end - start > timeout_current * crc_speed_bps
                 THEN [m EXCEPT !.timeout = ((end - start) + crc_speed_bps - 1)
                                               \div crc_speed_bps]
                 ELSE m,
                 "CheckCrc", start, e, 0))

\* check_crc(start, data)
check_crc(m, start, data) ==
    LET compare(r) ==
            IF r.err # "" THEN r
            ELSE IF r.ret # crc32(data, ZeroCrc) THEN Raise(r, "ChipCrcMismatch")
            ELSE r
    IN  compare(read_flash_range_crc(m, start, start + Len(data)))

\* flash_read_4k taking a response of any length
RECURSIVE flash_read_4k_any_length(_, _, _, _)
flash_read_4k_any_length(m, start, crc_check, attempt) ==
    LET retry(m2) ==
            IF IsValueError(m2)
            THEN IF attempt + 1 > read_retries THEN m2
                 ELSE flash_read_4k_any_length([m2 EXCEPT !.err = ""], start,
                                               crc_check, attempt + 1)
            ELSE m2
        checked(c, data) == IF c.err # "" THEN c ELSE [c EXCEPT !.ret = data]
        answered(w, data) ==
            IF w.err # "" THEN w
            ELSE IF crc_check /\ data # <<>>
            THEN checked(check_crc(w, start, data), data)
            ELSE [w EXCEPT !.ret = data]
        sent(w) ==
            answered(w, IF w.reply = "nop" THEN <<>>
                        ELSE ChipBytes(w.flash, w.sent[1], w.sent[1] + SectorSize))
    IN  retry(sent(command(m, "FlashRead4K", start, 0, 0)))

\* flash_read_4k(start, crc_check), from attempt number `attempt`
RECURSIVE flash_read_4k(_, _, _, _)
flash_read_4k(m, start, crc_check, attempt) ==
    LET retry(m2) ==
            IF IsValueError(m2)
            THEN IF attempt + 1 > read_retries THEN m2
                 ELSE flash_read_4k([m2 EXCEPT !.err = ""], start, crc_check,
                                    attempt + 1)
            ELSE m2
        checked(c, data) == IF c.err # "" THEN c ELSE [c EXCEPT !.ret = data]
        answered(w, data) ==
            IF w.err # "" THEN w
            ELSE IF Len(data) # SectorSize THEN Raise(w, "ValueError")
            ELSE IF crc_check THEN checked(check_crc(w, start, data), data)
            ELSE [w EXCEPT !.ret = data]
        sent(w) ==
            answered(w, IF w.reply = "nop" THEN <<>>
                        ELSE ChipBytes(w.flash, w.sent[1], w.sent[1] + SectorSize))
    IN  retry(sent(command(m, "FlashRead4K", start, 0, 0)))

\* flash_write_bytes(start, data, crc_check, dry_run)
flash_write_bytes(m, start, data, crc_check, dry_run) ==
    LET sent(w) ==
            IF w.err # "" THEN w
            ELSE IF w.reply = "nop" THEN Raise(w, "ValueError")
            ELSE IF crc_check
            THEN check_crc([w EXCEPT !.flash = ChipWrite(w.flash, w.sent[1], data)],
                           start, data)
            ELSE [w EXCEPT !.flash = ChipWrite(w.flash, w.sent[1], data)]
    IN  IF Len(data) > WriteBlock THEN Raise(m, "ValueError")
        ELSE IF dry_run THEN m
        ELSE sent(command(m, "FlashWrite", start, data, 0))

\* CRC32_FF_4K: the CRC-32 of one erased sector
CRC32_FF_4K == crc32(Fill(SectorSize, 255), ZeroCrc)

\* flash_erase_block.do_erase
do_erase(m, start, size_) ==
    LET sent(w) ==
            IF w.err # "" \/ w.reply = "nop" THEN w
            ELSE [w EXCEPT !.flash = ChipErase(w.flash, size_, w.sent[1])]
    IN  sent(command(m, "FlashErase", start, size_, 0))

\* do_erase_verify latching flash_erase_checked without the second CRC
do_erase_verify_unchecked(m, start, size_) ==
    LET blank == CRC32_FF_4K
        erased(e) ==
            IF e.err # "" THEN e ELSE [e EXCEPT !.flash_erase_checked = TRUE]
        erase(pre) ==
            IF pre.err # "" \/ pre.ret = blank THEN pre
            ELSE erased(do_erase(pre, start, size_))
    IN  erase(read_flash_range_crc(m, start, start + SectorSize))

\* flash_erase_block.do_erase_verify
do_erase_verify(m, start, size_) ==
    LET blank == CRC32_FF_4K
        verify(post) ==
            IF post.err # "" THEN post
            ELSE IF post.ret # blank THEN Raise(post, "ValueError")
            ELSE [post EXCEPT !.flash_erase_checked = TRUE]
        erased(e) ==
            IF e.err # "" THEN e
            ELSE verify(read_flash_range_crc(e, start, start + SectorSize))
        erase(pre) ==
            IF pre.err # "" \/ pre.ret = blank THEN pre
            ELSE erased(do_erase(pre, start, size_))
    IN  erase(read_flash_range_crc(m, start, start + SectorSize))

\* flash_erase_block verifying erases of either size
RECURSIVE flash_erase_block_verify_any(_, _, _, _, _)
flash_erase_block_verify_any(m, start, size_, dry_run, attempt) ==
    LET retry(r) ==
            IF IsValueError(r)
            THEN IF attempt + 1 > write_retries THEN r
                 ELSE flash_erase_block_verify_any([r EXCEPT !.err = ""], start,
                                                   size_, dry_run, attempt + 1)
            ELSE r
    IN  IF dry_run THEN m
        ELSE retry(IF ~m.flash_erase_checked
                   THEN do_erase_verify(m, start, size_)
                   ELSE do_erase(m, start, size_))

\* flash_erase_block(start, size, dry_run), from attempt number `attempt`
RECURSIVE flash_erase_block(_, _, _, _, _)
flash_erase_block(m, start, size_, dry_run, attempt) ==
    LET retry(r) ==
            IF IsValueError(r)
            THEN IF attempt + 1 > write_retries THEN r
                 ELSE flash_erase_block([r EXCEPT !.err = ""], start, size_,
                                        dry_run, attempt + 1)
            ELSE r
    IN  IF dry_run THEN m
        ELSE retry(IF ~m.flash_erase_checked
                   THEN IF size_ # SECTOR_4K THEN do_erase(m, start, size_)
                        ELSE do_erase_verify(m, start, size_)
                   ELSE do_erase(m, start, size_))

\* flash_write_4k's loop writing again without the erase
RECURSIVE flash_write_4k_loop_no_erase(_, _, _, _, _)
flash_write_4k_loop_no_erase(m, start, data, crc_check, attempt) ==
    LET retry(m2) ==
            IF IsValueError(m2)
            THEN IF attempt + 1 > write_retries THEN m2
                 ELSE flash_write_4k_loop_no_erase([m2 EXCEPT !.err = ""], start,
                                                   data, crc_check, attempt + 1)
            ELSE m2
        sent(w) ==
            IF w.err # "" THEN w
            ELSE IF crc_check
            THEN check_crc(IF w.reply = "nop" THEN w
                           ELSE [w EXCEPT !.flash = ChipWrite(w.flash, w.sent[1], data)],
                           start, data)
            ELSE IF w.reply = "nop" THEN w
            ELSE [w EXCEPT !.flash = ChipWrite(w.flash, w.sent[1], data)]
    IN  retry(sent(command(m, "FlashWrite4K", start, data, 0)))

\* the retry loop of flash_write_4k, from attempt number `attempt`
RECURSIVE flash_write_4k_loop(_, _, _, _, _)
flash_write_4k_loop(m, start, data, crc_check, attempt) ==
    LET again(e) ==
            IF e.err # "" THEN e
            ELSE flash_write_4k_loop(e, start, data, crc_check, attempt + 1)
        retry(m2) ==
            IF IsValueError(m2)
            THEN IF attempt + 1 > write_retries THEN m2
                 ELSE again(flash_erase_block([m2 EXCEPT !.err = ""], start,
                                              SECTOR_4K, FALSE, 0))
            ELSE m2
        sent(w) ==
            IF w.err # "" THEN w
            ELSE IF crc_check
            THEN check_crc(IF w.reply = "nop" THEN w
                           ELSE [w EXCEPT !.flash = ChipWrite(w.flash, w.sent[1], data)],
                           start, data)
            ELSE IF w.reply = "nop" THEN w
            ELSE [w EXCEPT !.flash = ChipWrite(w.flash, w.sent[1], data)]
    IN  retry(sent(command(m, "FlashWrite4K", start, data, 0)))

\* flash_write_4k(start, data, crc_check, dry_run)
flash_write_4k(m, start, data, crc_check, dry_run) ==
    IF Len(data) > SectorSize THEN Raise(m, "ValueError")
    ELSE IF dry_run THEN m
    ELSE flash_write_4k_loop(m, start, data \o Fill(SectorSize - Len(data), 255),
                             crc_check, 0)

\* FLASH_SR_SIZE: (flash id, status register bytes)
FLASH_SR_SIZE ==
    { <<<<11, 64, 20>>, 2>>, <<<<11, 64, 21>>, 2>>, <<<<11, 64, 22>>, 2>>,
      <<<<11, 64, 23>>, 2>>, <<<<11, 96, 23>>, 2>>, <<<<14, 64, 22>>, 2>>,
      <<<<28, 49, 19>>, 1>>, <<<<28, 65, 22>>, 1>>, <<<<28, 112, 21>>, 1>>,
      <<<<28, 112, 22>>, 1>>, <<<<32, 64, 22>>, 2>>, <<<<81, 64, 19>>, 1>>,
      <<<<81, 64, 20>>, 1>>, <<<<94, 64, 20>>, 1>>, <<<<133, 66, 21>>, 1>>,
      <<<<133, 96, 19>>, 2>>, <<<<133, 96, 20>>, 2>>, <<<<133, 96, 22>>, 2>>,
      <<<<133, 96, 23>>, 2>>, <<<<194, 35, 20>>, 2>>, <<<<194, 35, 21>>, 2>>,
      <<<<200, 64, 19>>, 1>>, <<<<200, 64, 20>>, 2>>, <<<<200, 64, 21>>, 2>>,
      <<<<200, 64, 22>>, 1>>, <<<<200, 101, 21>>, 2>>, <<<<200, 101, 22>>, 2>>,
      <<<<200, 101, 23>>, 2>>, <<<<205, 96, 20>>, 2>>, <<<<224, 64, 19>>, 1>>,
      <<<<224, 64, 20>>, 1>>, <<<<235, 96, 21>>, 2>>, <<<<239, 64, 22>>, 2>>,
      <<<<239, 64, 24>>, 2>> }

\* flash_read_id: the cached id, or the chip's answer to FlashReg24Read(0x9F)
flash_read_id(m) ==
    LET sent(w) ==
            IF w.err # "" THEN w
            ELSE [w EXCEPT !.flash_id = w.chip_id, !.ret = w.chip_id]
    IN  IF m.flash_id # <<>> THEN [m EXCEPT !.ret = m.flash_id]
        ELSE IF ~SessionSupports(m.protocol_type, "BkFlashReg24ReadCmnd")
        THEN Raise(m, "NotImplementedError")
        ELSE sent(command(m, "FlashReg24Read", 159, 0, 0))

\* flash_read_sr(size)
flash_read_sr(m, size_) ==
    LET second(w) == IF w.err # "" THEN w ELSE [w EXCEPT !.ret = w.chip_sr]
        first(w) ==
            IF w.err # "" THEN w
            ELSE IF size_ = 2 THEN second(command(w, "FlashReg8Read", 53, 0, 0))
            ELSE [w EXCEPT !.ret = w.chip_sr % 256]
    IN  first(command(m, "FlashReg8Read", 5, 0, 0))

\* flash_write_sr(sr, size, mask): the write, the read-back, the comparison
\* under the mask
flash_write_sr(m, sr, size_, mask) ==
    LET compare(r) ==
            IF r.err # "" THEN r
            ELSE IF And(sr, mask) # And(r.ret, mask) THEN Raise(r, "RuntimeError")
            ELSE r
        written(w, value) ==
            IF w.err # "" THEN w
            ELSE compare(flash_read_sr(IF w.reply = "nop" THEN w
                                       ELSE [w EXCEPT !.chip_sr = value], size_))
    IN  IF size_ = 1
        THEN written(command(m, "FlashReg8Write", 1, sr, 0),
                     ((m.chip_sr \div 256) * 256) + (sr % 256))
        ELSE written(command(m, "FlashReg16Write", 1, sr, 0), sr)

\* flash_unprotect writing a status register of 0
flash_unprotect_clear_all(m, mask) ==
    LET clear(r, sr_size) ==
            IF r.err # "" THEN r
            ELSE flash_write_sr(r, 0, sr_size, mask)
        sized(i, sr_size) == clear(flash_read_sr(i, sr_size), sr_size)
        known(i) ==
            IF i.err # "" THEN i
            ELSE IF ~\E row \in FLASH_SR_SIZE : row[1] = i.ret THEN Raise(i, "ValueError")
            ELSE sized(i, (CHOOSE row \in FLASH_SR_SIZE : row[1] = i.ret)[2])
    IN  known(flash_read_id(m))

\* flash_unprotect(mask = 0b01111100)
flash_unprotect(m, mask) ==
    LET clear(r, sr_size) ==
            IF r.err # "" THEN r
            ELSE flash_write_sr(r, r.ret - And(r.ret, mask), sr_size, mask)
        sized(i, sr_size) == clear(flash_read_sr(i, sr_size), sr_size)
        known(i) ==
            IF i.err # "" THEN i
            ELSE IF ~\E row \in FLASH_SR_SIZE : row[1] = i.ret THEN Raise(i, "ValueError")
            ELSE sized(i, (CHOOSE row \in FLASH_SR_SIZE : row[1] = i.ret)[2])
    IN  known(flash_read_id(m))

-----------------------------------------------------------------------------
(* flash_read and flash_read_bytes: cmd_hl_flash.py.  SpecFlashRead is one *)
(* flash_read_bytes(start, length, crc_check) call: it resumes the         *)
(* flash_read generator until it is exhausted, then checks the length.     *)

\* the chip's contents before the call: no two neighbouring bytes equal
FlashImage == [a \in 1..FlashBytes |-> 16 + a]

RECURSIVE Flatten(_)
Flatten(ss) == IF ss = <<>> THEN <<>> ELSE Head(ss) \o Flatten(Tail(ss))

SessionMachine ==
    [flash |-> flash, chip_id |-> chip_id, chip_sr |-> chip_sr, dev |-> dev,
     protocol_type |-> protocol_type, bootloader_type |-> bootloader_type,
     flash_erase_checked |-> flash_erase_checked, flash_id |-> flash_id,
     chip_type |-> ident.chip_type, bk_chip_id |-> ident.bk_chip_id,
     bk_boot_version |-> ident.bk_boot_version,
     serial_baudrate |-> serial_baudrate,
     flash_size |-> flash_size, boot_protection_bypass |-> boot_protection_bypass,
     timeout |-> serial_timeout, faults |-> faults,
     log |-> log, wire |-> wire, sent |-> <<>>, reply |-> "ok",
     err |-> "", ret |-> <<>>]

\* the chip a session on protocol `pt` talks to: a BootROM for FULL
ChipFor(pt) == Chip(IF pt = "FULL" THEN 1 ELSE 0)

\* the frame of a flash_read(start, length, crc_check) generator just created
FlashReadFrame(start, length, crc_check) ==
    [pc |-> "created", args |-> <<start, length, crc_check>>,
     start |-> start, length |-> length, block_count |-> 0,
     block_start |-> 0, i |-> 0, err |-> ""]

FlashReadInit ==
    /\ protocol_type \in {"FULL", "BASIC_BEKEN"}
    /\ bootloader_type = "None"
    /\ flash_size \in {0, FlashBytes}
    /\ flash_erase_checked = FALSE
    /\ flash_id = <<>>
    /\ flash = FlashImage
    /\ chip_id = <<200, 64, 21>> /\ chip_sr = 0
    /\ log = <<>>
    /\ \E start \in 0..(2 * SectorSize), length \in 0..(2 * SectorSize + 1),
          crc_check \in BOOLEAN :
          /\ start + length <= FlashBytes + 1
          /\ rd = FlashReadFrame(start, length, crc_check)
    /\ chunks = <<>>
    /\ pg = [pc |-> "idle"] /\ yields = <<>>
    /\ dev = ChipFor(protocol_type) /\ LinkIdle /\ OpsIdle
    /\ CodecIdle /\ CmdIdle

\* flash_read up to its loop: the size check and the block arithmetic
flash_read_enter(f) ==
    IF flash_size # 0 /\ f.start + f.length > flash_size
    THEN [f EXCEPT !.pc = "raised", !.err = "ValueError"]
    ELSE [f EXCEPT !.block_count = IF f.length <= 0 THEN 0
                                   ELSE ((f.length - 1) \div SectorSize) + 1,
                   !.block_start = SectorBase(f.start),
                   !.start = SectorOffset(f.start),
                   !.i = 0]

\* next() on the generator: from its creation or from the last yield to the
\* next yield, to its end or to an exception
FlashReadNext ==
    /\ rd.pc \in {"created", "yielded"}
    /\ LET f == IF rd.pc = "created" THEN flash_read_enter(rd)
                ELSE [rd EXCEPT !.i = rd.i + 1]
       IN  IF f.pc = "raised"
           THEN rd' = f /\ UNCHANGED <<chunks, log, wire>>
           ELSE IF f.i >= f.block_count
           THEN rd' = [f EXCEPT !.pc = "exhausted"] /\ UNCHANGED <<chunks, log, wire>>
           ELSE \E m \in {flash_read_4k(SessionMachine, f.block_start, f.args[3], 0)} :
                LET chunk == Slice(m.ret, f.start, f.start + f.length)
                IN  /\ log' = m.log
                    /\ wire' = m.wire
                    /\ IF m.err # ""
                       THEN rd' = [f EXCEPT !.pc = "raised", !.err = m.err]
                            /\ UNCHANGED chunks
                       ELSE /\ rd' = [f EXCEPT !.start = 0,
                                               !.length = f.length - Len(chunk),
                                               !.block_start = f.block_start + SectorSize,
                                               !.pc = "yielded"]
                            /\ chunks' = Append(chunks, chunk)
    /\ UNCHANGED <<sessVars, flash, chip_id, chip_sr, progVars, nonFlash>>

\* flash_read_bytes after the loop: assert out.tell() == length
FlashReadBytesReturn ==
    /\ rd.pc = "exhausted"
    /\ rd' = IF Len(Flatten(chunks)) = rd.args[2]
             THEN [rd EXCEPT !.pc = "returned"]
             ELSE [rd EXCEPT !.pc = "raised", !.err = "AssertionError"]
    /\ UNCHANGED <<chunks, sessVars, chipVars, progVars, wire, nonFlash>>

FlashReadNextStep == FlashReadNext \/ FlashReadBytesReturn

SpecFlashRead == FlashReadInit /\ [][FlashReadNextStep]_vars

\* the sectors read so far, in the order of the reads
RECURSIVE SectorsRead(_)
SectorsRead(lg) ==
    IF lg = <<>> THEN <<>>
    ELSE (IF Head(lg).op = "FlashRead4K" THEN <<Head(lg).a>> ELSE <<>>)
         \o SectorsRead(Tail(lg))

\* C2: for every start and length within the flash (start aligned or not) the
\* chunks flash_read yields concatenate to exactly `length` bytes equal to
\* flash[start, start+length); every chunk comes from one aligned sector
\* read, the sectors are read in ascending order, and only the first and the
\* last chunk may be shorter than a sector.
C2_FlashReadExact ==
    (/\ rd.pc \in {"exhausted", "returned", "raised"}
     /\ rd.args[1] + rd.args[2] <= FlashBytes) =>
        LET read == SectorsRead(log)
        IN  /\ rd.pc # "raised"
            /\ Len(Flatten(chunks)) = rd.args[2]
            /\ Flatten(chunks) = ChipBytes(flash, rd.args[1], rd.args[1] + rd.args[2])
            /\ Len(read) = Len(chunks)
            /\ \A k \in 1..Len(read) :
                  /\ SectorOffset(read[k]) = 0
                  /\ k > 1 => read[k - 1] < read[k]
            /\ \A k \in 1..Len(chunks) :
                  Len(chunks[k]) < SectorSize => k \in {1, Len(chunks)}

-----------------------------------------------------------------------------
(* program_flash: cmd_hl_flash.py.  SpecProgram is one                     *)
(* program_flash(io, io_size, start, crc_check, really_erase, dry_run)     *)
(* call whose stream holds exactly io_size bytes, resumed until it ends.   *)

\* the stream's bytes: data, all 0xFF, or data with every other flash
\* sector's worth of it 0xFF
StreamKinds == {"data", "blank", "mixed"}

Stream(kind, start, n) ==
    [k \in 1..n |->
        IF kind = "blank" THEN 255
        ELSE IF kind = "mixed" /\ ((start + k - 1) \div SectorSize) % 2 = 1 THEN 255
        ELSE 100 + k]

BlankImage == [a \in 1..FlashBytes |-> 255]

\* flash chips: two the table knows (two and one status register bytes)
\* and one it does not, each with protection bits set or clear
FlashChips ==
    { [id |-> <<200, 64, 21>>, sr |-> 636],
      [id |-> <<28, 49, 19>>,  sr |-> 124],
      [id |-> <<200, 64, 21>>, sr |-> 0],
      [id |-> <<1, 2, 3>>,     sr |-> 0] }

ProgramInit ==
    /\ protocol_type \in {"FULL", "BASIC_BEKEN"}
    /\ bootloader_type = "None"
    /\ flash_size \in {0, FlashBytes}
    /\ flash_erase_checked = FALSE
    /\ flash_id = <<>>
    /\ flash \in {FlashImage, BlankImage}
    /\ \E c \in FlashChips :
          /\ protocol_type # "FULL" => c.sr = 636
          /\ chip_id = c.id /\ chip_sr = c.sr
    /\ log = <<>>
    /\ \E start \in 0..(SectorSize + 1), io_size \in 0..FlashBytes,
          kind \in StreamKinds, crc_check \in BOOLEAN,
          really_erase \in BOOLEAN, dry_run \in BOOLEAN :
          /\ start + io_size <= FlashBytes + 1
          /\ kind # "data" => dry_run = FALSE /\ flash = FlashImage
          /\ pg = [pc |-> "created",
                   io_size |-> io_size, start |-> start, crc_check |-> crc_check,
                   really_erase |-> really_erase, dry_run |-> dry_run,
                   io |-> Stream(kind, start, io_size),
                   data |-> Stream(kind, start, io_size),
                   end |-> 0, addr |-> 0, sector_end |-> 0, block_size |-> 0,
                   crc |-> ZeroCrc, crc_chip |-> <<>>, err |-> ""]
    /\ yields = <<>>
    /\ rd = [pc |-> "idle"] /\ chunks = <<>>
    /\ dev = ChipFor(protocol_type) /\ LinkIdle /\ OpsIdle
    /\ CodecIdle /\ CmdIdle

\* what one resumption of the generator leaves: its frame, the chip and the
\* session, and the value yielded (<<>> when it returned or raised)
Resumed(f, m, out) == [f |-> f, m |-> m, out |-> out]

Raised(f, m) == Resumed([f EXCEPT !.pc = "raised", !.err = m.err], m, <<>>)

\* program_head asking the stream for 256 bytes whatever is left of the sector
program_head_unbounded(f, m) ==
    LET n     == WriteBlock
        block == Slice(f.io, 0, n)
        g     == [f EXCEPT !.io = Slice(f.io, n, Len(f.io)),
                           !.block_size = Len(block)]
    IN  IF Len(block) = 0
        THEN Resumed([g EXCEPT !.pc = "returned"], m, <<>>)
        ELSE LET written(w) ==
                     IF w.err # "" THEN Raised(g, w)
                     ELSE Resumed([g EXCEPT !.pc = "head"], w, <<Len(block)>>)
             IN  written(flash_write_bytes(m, f.addr, block, f.crc_check, f.dry_run))

\* program_head yielding the size it asked the stream for
program_head_yield_asked(f, m) ==
    LET n     == Min(WriteBlock, f.sector_end - f.addr)
        block == Slice(f.io, 0, n)
        g     == [f EXCEPT !.io = Slice(f.io, n, Len(f.io)),
                           !.block_size = Len(block)]
    IN  IF Len(block) = 0
        THEN Resumed([g EXCEPT !.pc = "returned"], m, <<>>)
        ELSE LET written(w) ==
                     IF w.err # "" THEN Raised(g, w)
                     ELSE Resumed([g EXCEPT !.pc = "head"], w, <<n>>)
             IN  written(flash_write_bytes(m, f.addr, block, f.crc_check, f.dry_run))

\* one pass of "while addr & 0xFFF": the 256-byte writes of the head sector
program_head(f, m) ==
    LET n     == Min(WriteBlock, f.sector_end - f.addr)
        block == Slice(f.io, 0, n)
        g     == [f EXCEPT !.io = Slice(f.io, n, Len(f.io)),
                           !.block_size = Len(block)]
    IN  IF Len(block) = 0
        THEN Resumed([g EXCEPT !.pc = "returned"], m, <<>>)
        ELSE LET written(w) ==
                     IF w.err # "" THEN Raised(g, w)
                     ELSE Resumed([g EXCEPT !.pc = "head"], w, <<Len(block)>>)
             IN  written(flash_write_bytes(m, f.addr, block, f.crc_check, f.dry_run))

\* program_body writing the sector whatever the block holds
program_body_write_all(f, m) ==
    LET block       == Slice(f.io, 0, SectorSize)
        block_size  == IF f.addr < f.end THEN Len(block) ELSE 0
        block_empty == \A k \in 1..Len(block) : block[k] = 255
        g           == [f EXCEPT !.io = Slice(f.io, SectorSize, Len(f.io)),
                                 !.block_size = block_size]
    IN  IF block_size = 0
        THEN IF f.crc_check
             THEN LET pad_size == (SectorSize - (f.io_size % SectorSize)) % SectorSize
                      compare(crc, c) ==
                          IF c.err # "" THEN Raised([g EXCEPT !.crc = crc], c)
                          ELSE IF crc # c.ret
                          THEN Raised([g EXCEPT !.crc = crc, !.crc_chip = c.ret],
                                      Raise(c, "ChipCrcMismatch"))
                          ELSE Resumed([g EXCEPT !.crc = crc, !.crc_chip = c.ret,
                                                 !.pc = "returned"], c, <<>>)
                  IN  compare(crc32(Fill(pad_size, 255), f.crc),
                              read_flash_range_crc(m, f.start,
                                                   f.start + f.io_size + pad_size))
             ELSE Resumed([g EXCEPT !.pc = "returned"], m, <<>>)
        ELSE LET h == [g EXCEPT !.crc = crc32(block, f.crc)]
                 written(w) ==
                     IF w.err # "" THEN Raised(h, w)
                     ELSE Resumed([h EXCEPT !.pc = "body"], w, <<Len(block)>>)
                 erased(e) ==
                     written(IF e.err = ""
                             THEN flash_write_4k(e, f.addr, block, f.crc_check,
                                                 f.dry_run)
                             ELSE e)
             IN  erased(flash_erase_block(m, f.addr, SECTOR_4K, f.dry_run, 0))

\* one pass of "while True": a 4K sector, or the CRC check at the end
program_body(f, m) ==
    LET block       == Slice(f.io, 0, SectorSize)
        block_size  == IF f.addr < f.end THEN Len(block) ELSE 0
        block_empty == \A k \in 1..Len(block) : block[k] = 255
        g           == [f EXCEPT !.io = Slice(f.io, SectorSize, Len(f.io)),
                                 !.block_size = block_size]
    IN  IF block_size = 0
        THEN IF f.crc_check
             THEN LET pad_size == (SectorSize - (f.io_size % SectorSize)) % SectorSize
                      compare(crc, c) ==
                          IF c.err # "" THEN Raised([g EXCEPT !.crc = crc], c)
                          ELSE IF crc # c.ret
                          THEN Raised([g EXCEPT !.crc = crc, !.crc_chip = c.ret],
                                      Raise(c, "ChipCrcMismatch"))
                          ELSE Resumed([g EXCEPT !.crc = crc, !.crc_chip = c.ret,
                                                 !.pc = "returned"], c, <<>>)
                  IN  compare(crc32(Fill(pad_size, 255), f.crc),
                              read_flash_range_crc(m, f.start,
                                                   f.start + f.io_size + pad_size))
             ELSE Resumed([g EXCEPT !.pc = "returned"], m, <<>>)
        ELSE LET h == [g EXCEPT !.crc = crc32(block, f.crc)]
                 written(w) ==
                     IF w.err # "" THEN Raised(h, w)
                     ELSE Resumed([h EXCEPT !.pc = "body"], w, <<Len(block)>>)
                 erased(e) ==
                     written(IF e.err = "" /\ ~block_empty
                             THEN flash_write_4k(e, f.addr, block, f.crc_check,
                                                 f.dry_run)
                             ELSE e)
             IN  erased(flash_erase_block(m, f.addr, SECTOR_4K, f.dry_run, 0))

\* program_flash entering without the test against flash_size
program_enter_any_size(f, m) ==
    LET g == [f EXCEPT !.end = f.start + f.io_size, !.addr = f.start]
    IN  IF SectorOffset(f.start) # 0 /\ ~f.really_erase
        THEN Raised(g, Raise(m, "ValueError"))
        ELSE LET h == [g EXCEPT !.sector_end = SectorBase(g.addr) + SectorSize]
                 erased(e) ==
                     IF e.err # "" THEN Raised(h, e) ELSE program_head(h, e)
                 unprotected(u) ==
                     IF u.err # "" THEN Raised(g, u)
                     ELSE IF SectorOffset(g.addr) # 0
                     THEN erased(flash_erase_block(u, SectorBase(g.addr), SECTOR_4K,
                                                   f.dry_run, 0))
                     ELSE program_body([g EXCEPT !.crc = ZeroCrc], u)
             IN  unprotected(IF m.protocol_type = "FULL"
                             THEN flash_unprotect(m, 124) ELSE m)

\* program_flash from the call to its first loop
program_enter(f, m) ==
    LET g == [f EXCEPT !.end = f.start + f.io_size, !.addr = f.start]
    IN  IF SectorOffset(f.start) # 0 /\ ~f.really_erase
        THEN Raised(g, Raise(m, "ValueError"))
        ELSE IF flash_size # 0 /\ g.end > flash_size
        THEN Raised(g, Raise(m, "ValueError"))
        ELSE LET h == [g EXCEPT !.sector_end = SectorBase(g.addr) + SectorSize]
                 erased(e) ==
                     IF e.err # "" THEN Raised(h, e) ELSE program_head(h, e)
                 unprotected(u) ==
                     IF u.err # "" THEN Raised(g, u)
                     ELSE IF SectorOffset(g.addr) # 0
                     THEN erased(flash_erase_block(u, SectorBase(g.addr), SECTOR_4K,
                                                   f.dry_run, 0))
                     ELSE program_body([g EXCEPT !.crc = ZeroCrc], u)
             IN  unprotected(IF m.protocol_type = "FULL"
                             THEN flash_unprotect(m, 124) ELSE m)

\* program_flash after a yield: addr += block_size, then the loop it is in
program_resume(f, m) ==
    LET g == [f EXCEPT !.addr = f.addr + f.block_size]
    IN  IF f.pc = "head" /\ SectorOffset(g.addr) # 0
        THEN program_head(g, m)
        ELSE IF f.pc = "head"
        THEN program_body([g EXCEPT !.crc = ZeroCrc], m)
        ELSE program_body(g, m)

\* next() on the generator
ProgramNext ==
    /\ pg.pc \in {"created", "head", "body"}
    /\ \E r \in {IF pg.pc = "created" THEN program_enter(pg, SessionMachine)
                 ELSE program_resume(pg, SessionMachine)} :
           /\ pg' = r.f
           /\ yields' = yields \o r.out
           /\ flash' = r.m.flash
           /\ chip_sr' = r.m.chip_sr
           /\ log' = r.m.log
           /\ wire' = r.m.wire
           /\ flash_erase_checked' = r.m.flash_erase_checked
           /\ flash_id' = r.m.flash_id
    /\ UNCHANGED <<protocol_type, bootloader_type, flash_size, chip_id,
                   readVars, nonFlash>>

SpecProgram == ProgramInit /\ [][ProgramNext]_vars

\* the call is over: the generator returned or raised
ProgramFinished == pg.pc \in {"returned", "raised"}

\* C1: a program_flash call with crc_check, on a chip that stores every
\* write, with a non-empty stream that fits the flash, from an aligned start
\* or from an unaligned one with really_erase, never ends in ChipCrcMismatch:
\* whenever it compares the two CRCs, the accumulated CRC equals the chip's
\* CRC over [start, start+io_size+pad); and a comparison that disagrees
\* always raises ChipCrcMismatch.
C1_ProgramCrcAgrees ==
    (/\ ProgramFinished
     /\ pg.crc_check /\ ~pg.dry_run
     /\ pg.io_size > 0
     /\ pg.start + pg.io_size <= FlashBytes
     /\ SectorOffset(pg.start) # 0 => pg.really_erase) =>
        /\ pg.err # "ChipCrcMismatch"
        /\ pg.crc_chip # <<>> => pg.crc = pg.crc_chip
        /\ (pg.crc_chip # <<>> /\ pg.crc # pg.crc_chip) =>
               (pg.pc = "raised" /\ pg.err = "ChipCrcMismatch")

-----------------------------------------------------------------------------
(* connect(), wait_for_link, set_baudrate and detect_chip: linking.py.     *)
(* SpecLink is one connect() call on a fresh session.  The chip may leave  *)
(* a LINK_CHECK unanswered or answer it with a nonzero value; it answers   *)
(* every later command.  check_length (256) is scaled like the sector.     *)

CheckLength  == 2               \* stands for check_length = 256
CheckOffset  == SectorSize      \* stands for check_offset = 0x11000

\* a LINK_CHECK's outcome: no response (-1) or LinkCheckResp.value
LinkAnswers == {-1, 0, 1}

\* SCTRL_CHIP_ID as the chip reports it: two known chips and an unknown one
RegIds == {467740, 29240, 4660}

\* BootVersionResp.version: the "no version" byte, or text with padding
BootVersions == {<<7>>, <<32, 49, 0>>}

\* the CRC-32 of the chip's bootloader: every table entry and an unknown one
BootCrcs ==
    {BkBootloaderType[BootloaderNames[k]].crc : k \in 1..Len(BootloaderNames)}
    \cup {<<1, 2, 3, 4>>}

\* bytes.strip(b"\x00\x20")
RECURSIVE strip(_)
strip(b) ==
    IF b = <<>> THEN b
    ELSE IF Head(b) \in {0, 32} THEN strip(Tail(b))
    ELSE IF b[Len(b)] \in {0, 32} THEN strip(SubSeq(b, 1, Len(b) - 1))
    ELSE b

\* one pass of wait_for_link's loop: the chip's answer decides `connected`
\* (no response raises ValueError inside command(), which the loop swallows)
wait_for_link(m, answer) ==
    [command(m, "LinkCheck", 0, 0, 0) EXCEPT !.ret = (answer = 0)]

\* set_baudrate(baudrate): the callback switches the host after the write
set_baudrate(m, baudrate) ==
    command(m, "SetBaudRate", baudrate, 20, baudrate)

\* connect() setting the baud rate whatever the channel's rate is
connect_baudrate_always(m, baudrate) == set_baudrate(m, baudrate)

\* connect(): "if self.serial.baudrate != self.baudrate"
connect_baudrate(m, baudrate) ==
    IF m.serial_baudrate # baudrate THEN set_baudrate(m, baudrate) ELSE m

\* detect_chip: the bootloader CRC and what a known bootloader brings
detect_chip_bootloader(m) ==
    LET adopt(r, bt) ==
            IF bt # "None"
            THEN [r EXCEPT !.bootloader_type = bt,
                           !.protocol_type = BkBootloaderType[bt].protocol,
                           !.chip_type = BkBootloaderType[bt].chip]
            ELSE [r EXCEPT !.bootloader_type = "None", !.chip_type = "None"]
        lookup(r) == IF r.err # "" THEN r ELSE adopt(r, get_by_crc(r.ret))
    IN  lookup(read_flash_range_crc(m, 0, CheckLength))

\* detect_chip, unknown bootloader: the chip's CRC of the app range
detect_chip_app_crc(m) ==
    read_flash_range_crc(m, CheckOffset, CheckOffset + CheckLength)

\* the guess with the two protocols exchanged
detect_chip_guess_swapped(m, crc, data) ==
    IF crc = crc32(Slice(data, 0, CheckLength + 1), ZeroCrc)
    THEN [m EXCEPT !.protocol_type = "BASIC_BEKEN"]
    ELSE IF crc = crc32(Slice(data, 0, CheckLength), ZeroCrc)
    THEN [m EXCEPT !.protocol_type = "FULL"]
    ELSE Raise(m, "ValueError")

\* detect_chip, unknown bootloader: the protocol guessed from the app data
detect_chip_guess(m, crc, data) ==
    IF crc = crc32(Slice(data, 0, CheckLength + 1), ZeroCrc)
    THEN [m EXCEPT !.protocol_type = "FULL"]
    ELSE IF crc = crc32(Slice(data, 0, CheckLength), ZeroCrc)
    THEN [m EXCEPT !.protocol_type = "BASIC_BEKEN"]
    ELSE Raise(m, "ValueError")

\* register_read(address)
register_read(m, address) ==
    [command(m, "ReadReg", address, 0, 0) EXCEPT !.ret = m.dev.reg_id]

\* the register probe sent whatever the protocol
detect_chip_read_reg_always(m) ==
    LET match(r) ==
            LET known == {c \in DOMAIN BkChipType : BkChipType[c] = r.ret}
            IN  [r EXCEPT !.bk_chip_id = r.ret,
                          !.chip_type = IF known # {} THEN CHOOSE c \in known : TRUE
                                        ELSE r.chip_type]
    IN  match(register_read(m, 8388608))

\* detect_chip: SCTRL_CHIP_ID, if the protocol has ReadReg
detect_chip_read_reg(m) ==
    LET match(r) ==
            LET known == {c \in DOMAIN BkChipType : BkChipType[c] = r.ret}
            IN  [r EXCEPT !.bk_chip_id = r.ret,
                          !.chip_type = IF known # {} THEN CHOOSE c \in known : TRUE
                                        ELSE r.chip_type]
    IN  IF SessionSupports(m.protocol_type, "BkReadRegCmnd")
        THEN match(register_read(m, 8388608))
        ELSE m

\* detect_chip: the boot version, if the protocol has BootVersion
detect_chip_boot_version(m) ==
    IF SessionSupports(m.protocol_type, "BkBootVersionCmnd")
    THEN IF m.dev.boot_version # <<7>>
         THEN [command(m, "BootVersion", 0, 0, 0)
                  EXCEPT !.bk_boot_version = strip(m.dev.boot_version)]
         ELSE command(m, "BootVersion", 0, 0, 0)
    ELSE m

\* flash_detect_size: candidate sizes 0.5, 1, 2, 4, 8, 16 MiB, half a MiB
\* standing for one sector
DetectSizes == <<1, 2, 4, 8, 16, 32>>

\* the loop probing at the candidate size itself, without the safe offset
RECURSIVE flash_detect_size_from_no_offset(_, _, _)
flash_detect_size_from_no_offset(m, start_data, k) ==
    LET size_ == DetectSizes[k] * SectorSize
        compare(r) ==
            IF r.err # "" THEN r
            ELSE IF r.ret = start_data THEN [r EXCEPT !.ret = size_]
            ELSE flash_detect_size_from_no_offset(r, start_data, k + 1)
    IN  IF k > Len(DetectSizes) THEN Raise(m, "ValueError")
        ELSE compare(flash_read_4k(m, size_, FALSE, 0))

\* flash_detect_size's loop from candidate k on
RECURSIVE flash_detect_size_from(_, _, _)
flash_detect_size_from(m, start_data, k) ==
    LET size_ == DetectSizes[k] * SectorSize
        compare(r) ==
            IF r.err # "" THEN r
            ELSE IF r.ret = start_data THEN [r EXCEPT !.ret = size_]
            ELSE flash_detect_size_from(r, start_data, k + 1)
    IN  IF k > Len(DetectSizes) THEN Raise(m, "ValueError")
        ELSE compare(flash_read_4k(m, size_ + CheckOffset, FALSE, 0))

\* flash_detect_size(): the bypass is off while it probes, and on again
\* however it ends
flash_detect_size(m) ==
    LET finally(r) == [r EXCEPT !.boot_protection_bypass = TRUE]
        loop(r) == IF r.err # "" THEN r ELSE flash_detect_size_from(r, r.ret, 1)
    IN  finally(loop(flash_read_4k([m EXCEPT !.boot_protection_bypass = FALSE],
                                   CheckOffset, FALSE, 0)))

\* connect() setting flash_size_detected wherever the size came from
connect_flash_flag_always(m, size_) ==
    LET detected(r) == IF r.err # "" THEN r ELSE [r EXCEPT !.ret = <<r.ret, TRUE>>]
        choose(r) ==
            IF size_ # 0 THEN [r EXCEPT !.ret = <<size_, TRUE>>]
            ELSE IF r.flash_id # <<>>
            THEN [r EXCEPT !.ret = <<2 ^ r.flash_id[3], TRUE>>]
            ELSE IF r.bootloader_type # "None"
                    /\ BkBootloaderType[r.bootloader_type].flash_size # 0
            THEN [r EXCEPT !.ret = <<BkBootloaderType[r.bootloader_type].flash_size,
                                     TRUE>>]
            ELSE detected(flash_detect_size(r))
        swallow(r) ==
            choose(IF r.err = "NotImplementedError" THEN [r EXCEPT !.err = ""] ELSE r)
    IN  swallow(flash_read_id(m))

\* connect() after detect_chip: the flash id and the flash size; ret is
\* <<flash_size, flash_size_detected>>
connect_flash(m, size_) ==
    LET detected(r) == IF r.err # "" THEN r ELSE [r EXCEPT !.ret = <<r.ret, TRUE>>]
        choose(r) ==
            IF size_ # 0 THEN [r EXCEPT !.ret = <<size_, FALSE>>]
            ELSE IF r.flash_id # <<>>
            THEN [r EXCEPT !.ret = <<2 ^ r.flash_id[3], FALSE>>]
            ELSE IF r.bootloader_type # "None"
                    /\ BkBootloaderType[r.bootloader_type].flash_size # 0
            THEN [r EXCEPT !.ret = <<BkBootloaderType[r.bootloader_type].flash_size,
                                     FALSE>>]
            ELSE detected(flash_detect_size(r))
        swallow(r) ==
            choose(IF r.err = "NotImplementedError" THEN [r EXCEPT !.err = ""] ELSE r)
    IN  swallow(flash_read_id(m))

\* a flash chip of n sectors, every sector different from the probed ones
SizedImage(n) == [a \in 1..(n * SectorSize) |-> 16 + (a % 239)]

\* the chips connect() meets: the two images of the flash operations, flash
\* chips of 2 and 4 sectors, and one larger than every candidate size
LinkImages ==
    {FlashImage, BlankImage, SizedImage(2), SizedImage(4), SizedImage(64)}

LinkInit ==
    /\ protocol_type = "None"
    /\ SessDefaults
    /\ flash \in LinkImages
    /\ chip_id \in {<<200, 64, 21>>, <<28, 49, 19>>} /\ chip_sr = 0
    /\ log = <<>>
    /\ dev \in [crc_span : {-1, 0, 1}, boot_crc : BootCrcs, reg_id : RegIds,
                boot_version : BootVersions]
    /\ ident = IdentDefaults
    /\ serial_baudrate = LinkBaud
    /\ wire = <<>>
    /\ \E baudrate \in {LinkBaud, 921600} :
          conn = [pc |-> "link", at |-> "", baudrate |-> baudrate, tries |-> 0,
                  answers |-> <<>>, crc |-> <<>>, err |-> "",
                  flash_size_detected |-> FALSE]
    /\ rd = [pc |-> "idle"] /\ chunks = <<>>
    /\ pg = [pc |-> "idle"] /\ yields = <<>>
    /\ CodecIdle /\ CmdIdle /\ OpsIdle

\* connect() raising `err` where it stands
ConnRaised(err) == [conn EXCEPT !.pc = "raised", !.at = conn.pc, !.err = err]

\* the session after a step that left machine m
Adopt(m) ==
    /\ protocol_type' = m.protocol_type
    /\ bootloader_type' = m.bootloader_type
    /\ flash_id' = m.flash_id
    /\ ident' = [chip_type |-> m.chip_type, bk_chip_id |-> m.bk_chip_id,
                 bk_boot_version |-> m.bk_boot_version]
    /\ serial_baudrate' = m.serial_baudrate
    /\ log' = m.log
    /\ wire' = m.wire

linkFixed == <<flash_erase_checked, flash, chip_id, chip_sr, dev, progVars,
               codecVars, engVars, opsVars, auxVars>>

\* wait_for_link(link_timeout): one more LINK_CHECK before the timeout
WaitForLink ==
    /\ conn.pc = "link"
    /\ conn.tries < MaxLinkTries
    /\ \E answer \in LinkAnswers :
       \E m \in {wait_for_link(SessionMachine, answer)} :
          /\ Adopt(m)
          /\ conn' = [conn EXCEPT !.tries = conn.tries + 1,
                                  !.answers = Append(conn.answers, answer),
                                  !.pc = IF m.ret THEN "baud" ELSE "link"]
    /\ UNCHANGED <<flash_size, readVars, linkFixed>>

\* wait_for_link: the timeout expires; connect() raises TimeoutError
LinkTimeout ==
    /\ conn.pc = "link"
    /\ conn' = ConnRaised("TimeoutError")
    /\ UNCHANGED <<sessVars, log, wire, ident, serial_baudrate, readVars, linkFixed>>

\* connect(): the baud rate
ConnectBaudrate ==
    /\ conn.pc = "baud"
    /\ \E m \in {connect_baudrate(SessionMachine, conn.baudrate)} : Adopt(m)
    /\ conn' = [conn EXCEPT !.pc = "detect"]
    /\ UNCHANGED <<flash_size, readVars, linkFixed>>

\* detect_chip up to the read of the app data
DetectBootloader ==
    /\ conn.pc = "detect"
    /\ \E m \in {detect_chip_bootloader(SessionMachine)} :
          IF m.bootloader_type # "None"
          THEN /\ Adopt(m)
               /\ conn' = [conn EXCEPT !.pc = "readreg"]
               /\ UNCHANGED readVars
          ELSE \E c \in {detect_chip_app_crc(m)} :
               /\ Adopt(c)
               /\ conn' = [conn EXCEPT !.pc = "appread", !.crc = c.ret]
               /\ rd' = FlashReadFrame(CheckOffset, CheckLength + 1, FALSE)
               /\ chunks' = <<>>
    /\ UNCHANGED <<flash_size, linkFixed>>

\* detect_chip after flash_read_bytes: the protocol guess
DetectGuess ==
    /\ conn.pc = "appread"
    /\ rd.pc \in {"returned", "raised"}
    /\ IF rd.pc = "raised"
       THEN /\ conn' = ConnRaised(rd.err)
            /\ UNCHANGED <<protocol_type, bootloader_type, flash_id, ident,
                           serial_baudrate, log, wire>>
       ELSE \E m \in {detect_chip_guess(SessionMachine, conn.crc, Flatten(chunks))} :
            /\ Adopt(m)
            /\ conn' = IF m.err # "" THEN ConnRaised(m.err)
                       ELSE [conn EXCEPT !.pc = "readreg"]
    /\ UNCHANGED <<flash_size, readVars, linkFixed>>

\* detect_chip: check_protocol(BkReadRegCmnd)
DetectReadReg ==
    /\ conn.pc = "readreg"
    /\ \E m \in {detect_chip_read_reg(SessionMachine)} : Adopt(m)
    /\ conn' = [conn EXCEPT !.pc = "bootver"]
    /\ UNCHANGED <<flash_size, readVars, linkFixed>>

\* detect_chip: check_protocol(BkBootVersionCmnd)
DetectBootVersion ==
    /\ conn.pc = "bootver"
    /\ \E m \in {detect_chip_boot_version(SessionMachine)} : Adopt(m)
    /\ conn' = [conn EXCEPT !.pc = "flash"]
    /\ UNCHANGED <<flash_size, readVars, linkFixed>>

\* connect(): the flash id and the flash size
ConnectFlash ==
    /\ conn.pc = "flash"
    /\ \E m \in {connect_flash(SessionMachine, flash_size)} :
          /\ Adopt(m)
          /\ IF m.err # ""
             THEN conn' = ConnRaised(m.err) /\ UNCHANGED flash_size
             ELSE /\ flash_size' = m.ret[1]
                  /\ conn' = [conn EXCEPT !.pc = "connected",
                                          !.flash_size_detected = m.ret[2]]
    /\ UNCHANGED <<readVars, linkFixed>>

LinkNext ==
    \/ WaitForLink
    \/ LinkTimeout
    \/ ConnectBaudrate
    \/ DetectBootloader
    \/ FlashReadNext
    \/ FlashReadBytesReturn
    \/ DetectGuess
    \/ DetectReadReg
    \/ DetectBootVersion
    \/ ConnectFlash

SpecLink == LinkInit /\ [][LinkNext]_vars

\* the commands sent so far that are `op`
SentOps(op) == {i \in 1..Len(log) : log[i].op = op}

\* connect() has received a LINK_CHECK_RESP with value 0
Linked == \E k \in 1..Len(conn.answers) : conn.answers[k] = 0

\* C7: during connect() only LINK_CHECK is sent until a LINK_CHECK_RESP with
\* value 0 has been received: every other command comes after the LINK_CHECKs
\* of the handshake, whose last answer is that response; SET_BAUDRATE is sent
\* at most once and only if the requested rate differs from the link rate;
\* without such a response connect() sends nothing but LINK_CHECK and can end
\* only in the timeout error.
C7_LinkFirst ==
    LET others == {i \in 1..Len(log) : log[i].op # "LinkCheck"}
        n      == Len(conn.answers)
    IN  /\ \A k \in 1..n : conn.answers[k] = 0 => k = n
        /\ \A i \in 1..Len(log) : i <= n => log[i].op = "LinkCheck"
        /\ others # {} => Linked
        /\ \A i \in others : i > n
        /\ Cardinality(SentOps("SetBaudRate")) <= 1
        /\ SentOps("SetBaudRate") # {} => conn.baudrate # LinkBaud
        /\ ~Linked => /\ conn.pc \in {"link", "raised"}
                      /\ conn.pc = "raised" => conn.err = "TimeoutError"
        /\ conn.err = "TimeoutError" => ~Linked /\ others = {}

\* connect() got through after an unanswered LINK_CHECK and a baud rate change
C7_Witness ==
    /\ conn.pc = "connected"
    /\ conn.answers = <<-1, 0>>
    /\ SentOps("SetBaudRate") # {}
    /\ SentOps("CheckCrc") # {}

\* C8: set_baudrate writes the SET_BAUDRATE frame at the old host rate, then
\* switches the host to the target rate, then reads the acknowledgement at
\* the new rate, with nothing between them; the host rate changes nowhere
\* else.
C8_BaudrateSwitch ==
    \A i \in 1..Len(wire) :
        /\ (wire[i].ev = "write" /\ wire[i].op = "SetBaudRate") =>
              /\ wire[i].baud = LinkBaud
              /\ i + 2 <= Len(wire)
              /\ wire[i + 1] = Wire("baudrate", "SetBaudRate", conn.baudrate)
              /\ wire[i + 2] = Wire("read", "SetBaudRate", conn.baudrate)
              /\ \A j \in 1..Len(wire) : j > i + 2 => wire[j].baud = conn.baudrate
        /\ wire[i].ev = "baudrate" =>
              /\ i > 1
              /\ wire[i - 1].ev = "write" /\ wire[i - 1].op = "SetBaudRate"

\* set_baudrate has returned and detection has sent its first command
C8_Witness ==
    /\ conn.pc \in {"readreg", "appread"}
    /\ \E i \in 1..Len(wire) : wire[i].ev = "baudrate" /\ wire[i].baud = 921600
    /\ serial_baudrate = 921600

\* the CRC-32 of the first n bytes of the app range
AppCrc(n) == crc32(ChipBytes(flash, CheckOffset, CheckOffset + n), ZeroCrc)

\* detect_chip has got past the protocol decision
ProtocolDecided ==
    \/ conn.pc \in {"readreg", "bootver", "flash", "connected"}
    \/ conn.pc = "raised" /\ conn.at = "flash"

\* C9: once detect_chip has decided: a chip whose bootloader CRC is in the
\* table has that descriptor's bootloader and protocol, and its chip until
\* the register probe; any other chip has no bootloader and the protocol
\* FULL if its CRC of the app range is the CRC-32 of check_length+1 bytes,
\* else BASIC_BEKEN if it is the CRC-32 of check_length bytes; a chip that
\* matches neither makes detection fail with no protocol adopted.
C9_DetectChip ==
    LET matches == {k \in 1..Len(BootloaderNames) :
                       BkBootloaderType[BootloaderNames[k]].crc = dev.boot_crc}
        chip    == AppCrc(CheckLength + dev.crc_span)
        full    == chip = AppCrc(CheckLength + 1)
        basic   == chip = AppCrc(CheckLength)
    IN  /\ (ProtocolDecided /\ matches # {}) =>
              \E k \in matches :
                  /\ bootloader_type = BootloaderNames[k]
                  /\ protocol_type = BkBootloaderType[BootloaderNames[k]].protocol
                  /\ conn.pc = "readreg" =>
                        ident.chip_type = BkBootloaderType[BootloaderNames[k]].chip
        /\ (ProtocolDecided /\ matches = {}) =>
              /\ bootloader_type = "None"
              /\ full \/ basic
              /\ protocol_type = IF full THEN "FULL" ELSE "BASIC_BEKEN"
              /\ conn.pc = "readreg" => ident.chip_type = "None"
        /\ (conn.pc = "raised" /\ conn.at = "appread") =>
              /\ matches = {} /\ ~full /\ ~basic
              /\ conn.err = "ValueError"
              /\ protocol_type = "None"
        /\ (matches = {} /\ ~full /\ ~basic) => ~ProtocolDecided

\* an unknown bootloader whose CheckCRC is end-exclusive was taken as
\* BASIC_BEKEN
C9_Witness ==
    /\ conn.pc = "readreg"
    /\ bootloader_type = "None"
    /\ protocol_type = "BASIC_BEKEN"
    /\ dev.crc_span = 0
    /\ Cardinality(SentOps("CheckCrc")) = 2

\* the adopted protocol contains the short command `code`
Adopted(code) ==
    protocol_type # "None" /\ <<code, FALSE>> \in BkProtocolType[protocol_type]

-----------------------------------------------------------------------------
(* The flash size connect() settles on. *)

\* the candidates of flash_detect_size whose page equals the reference page
WrapMatches ==
    {k \in 1..Len(DetectSizes) :
        ChipBytes(flash, (DetectSizes[k] * SectorSize) + CheckOffset,
                  (DetectSizes[k] * SectorSize) + CheckOffset + SectorSize)
        = ChipBytes(flash, CheckOffset, CheckOffset + SectorSize)}

\* the first of them
FirstWrap == CHOOSE k \in WrapMatches : \A j \in WrapMatches : k <= j

\* the flash id could be read: the adopted protocol has FlashReg24Read
IdReadable ==
    protocol_type # "None" /\ <<14, TRUE>> \in BkProtocolType[protocol_type]

\* the bootloader descriptor brings a flash size
DescriptorSize ==
    IF bootloader_type = "None" THEN 0
    ELSE BkBootloaderType[bootloader_type].flash_size

\* C11: after connect() succeeds flash_size is nonzero and is, in this
\* order of preference, 1 << size_code of the flash id if the id could be
\* read, else the bootloader descriptor's nonzero flash size, else the size
\* flash_detect_size found; flash_size_detected is true in the last case
\* and only there.
C11_FlashSizePriority ==
    conn.pc = "connected" =>
        /\ flash_size # 0
        /\ IdReadable <=> flash_id # <<>>
        /\ flash_id # <<>> => flash_id = chip_id
        /\ IF flash_id # <<>>
           THEN flash_size = 2 ^ flash_id[3] /\ ~conn.flash_size_detected
           ELSE IF DescriptorSize # 0
           THEN flash_size = DescriptorSize /\ ~conn.flash_size_detected
           ELSE /\ conn.flash_size_detected
                /\ WrapMatches # {}
                /\ flash_size = DetectSizes[FirstWrap] * SectorSize

\* connect() succeeded on a chip whose id cannot be read and whose
\* bootloader descriptor brings the size, a larger one than the flash chip's
C11_Witness ==
    /\ conn.pc = "connected"
    /\ flash_id = <<>>
    /\ bootloader_type = "BK7231S_1_0_1"
    /\ flash = SizedImage(2)
    /\ flash_size = 2097152
    /\ ~conn.flash_size_detected

\* flash_detect_size ran: no id, no descriptor size, and connect() got to
\* the flash size
DetectionRan ==
    /\ \/ conn.pc = "connected"
       \/ conn.pc = "raised" /\ conn.at = "flash"
    /\ flash_id = <<>>
    /\ DescriptorSize = 0

\* the pages flash_detect_size reads when it stops at candidate k
DetectReads(k) ==
    <<CheckOffset>> \o [j \in 1..k |-> (DetectSizes[j] * SectorSize) + CheckOffset]

\* C12: flash_detect_size reads the page at the safe offset and then the
\* page at S + offset for the candidate sizes S in ascending order, stops at
\* the first S whose page equals the reference page and returns it; if no
\* candidate matches it has read them all and fails.
C12_DetectSize ==
    DetectionRan =>
        LET reads == SectorsRead(log)
            own   == IF bootloader_type = "None" THEN 1 ELSE 0
        IN  /\ conn.pc = "connected" <=> WrapMatches # {}
            /\ conn.pc = "connected" =>
                  /\ flash_size = DetectSizes[FirstWrap] * SectorSize
                  /\ \A j \in 1..Len(DetectSizes) :
                        DetectSizes[j] * SectorSize < flash_size => j \notin WrapMatches
                  /\ Len(reads) = own + FirstWrap + 1
                  /\ EndsWith(reads, DetectReads(FirstWrap))
            /\ conn.pc = "raised" =>
                  /\ conn.err = "ValueError"
                  /\ Len(reads) = own + Len(DetectSizes) + 1
                  /\ EndsWith(reads, DetectReads(Len(DetectSizes)))

\* detection passed over two candidates and found the chip's four sectors
C12_Witness ==
    /\ DetectionRan
    /\ conn.pc = "connected"
    /\ flash = SizedImage(4)
    /\ flash_size = 4 * SectorSize
    /\ FirstWrap = 3

-----------------------------------------------------------------------------
(* SpecFlashOps is one call of a low-level chip or flash command           *)
(* (cmd_ll_chip.py, cmd_ll_flash.py) on a connected session, against a     *)
(* chip that may have faults in store for one kind of command.             *)

\* connected sessions: protocol and bootloader
OpsSessions ==
    { <<"FULL", "None">>, <<"FULL", "BK7231N_1_0_1">>,
      <<"BASIC_BEKEN", "None">>, <<"BASIC_TUYA", "BK7231S_1_0_1">> }

\* the commands a chip may fail to answer, and those it may answer without
\* doing what they ask
SilentOps ==
    {"CheckCrc", "LinkCheck", "FlashRead4K", "FlashWrite", "FlashWrite4K",
     "FlashErase", "FlashReg8Read", "FlashReg8Write", "FlashReg16Write"}

NopOps ==
    {"FlashRead4K", "FlashWrite", "FlashWrite4K", "FlashErase",
     "FlashReg8Write", "FlashReg16Write"}

\* the scripts: none, or a run of one fault, as long as one attempt, as the
\* attempts of a write loop or as the attempts of a read loop
FaultScripts ==
    {<<>>}
    \cup {Fill(n, Fault(op, "silent")) : op \in SilentOps, n \in {1, write_retries + 1}}
    \cup {Fill(read_retries + 1, Fault(op, "silent")) : op \in {"FlashRead4K", "CheckCrc"}}
    \cup {Fill(n, Fault(op, "nop")) : op \in NopOps, n \in {1, write_retries + 1}}
    \cup {Fill(read_retries + 1, Fault("FlashRead4K", "nop"))}

\* the data handed to the write calls: n bytes, none of them 0xFF
WriteData(n) == [k \in 1..n |-> 100 + k]

FlashOpsInit ==
    /\ \E s \in OpsSessions : protocol_type = s[1] /\ bootloader_type = s[2]
    /\ \E setup \in {<<0, TRUE>>, <<FlashBytes, TRUE>>, <<FlashBytes, FALSE>>} :
          flash_size = setup[1] /\ boot_protection_bypass = setup[2]
    /\ flash_erase_checked \in BOOLEAN
    /\ flash_id = <<>>
    /\ flash \in {FlashImage, BlankImage}
    /\ chip_id = <<200, 64, 21>> /\ chip_sr = 636
    /\ log = <<>>
    /\ dev = ChipFor(protocol_type) /\ LinkIdle
    /\ serial_timeout = cmnd_timeout
    /\ faults \in FaultScripts
    /\ ll = [pc |-> "idle"] /\ AuxIdle
    /\ rd = [pc |-> "idle"] /\ chunks = <<>>
    /\ pg = [pc |-> "idle"] /\ yields = <<>>
    /\ CodecIdle /\ CmdIdle

\* the call `name(args)` is over and left machine m; the frame keeps what
\* the session and the chip were before it
Called(name, args, m) ==
    /\ ll' = [pc |-> IF m.err = "" THEN "returned" ELSE "raised",
              call |-> name, args |-> args, err |-> m.err, ret |-> m.ret,
              flash |-> flash, flash_erase_checked |-> flash_erase_checked,
              chip_sr |-> chip_sr, faults |-> faults]
    /\ flash' = m.flash
    /\ chip_sr' = m.chip_sr
    /\ log' = m.log
    /\ wire' = m.wire
    /\ flash_erase_checked' = m.flash_erase_checked
    /\ flash_id' = m.flash_id
    /\ serial_timeout' = m.timeout
    /\ boot_protection_bypass' = m.boot_protection_bypass
    /\ faults' = m.faults
    /\ UNCHANGED <<protocol_type, bootloader_type, flash_size, chip_id, dev,
                   ident, serial_baudrate, conn, readVars, progVars, codecVars,
                   engVars, auxVars>>

ReadFlashRangeCrc ==
    /\ ll.pc = "idle"
    /\ \E start \in {0, 1, SectorSize}, end \in {0, 1, SectorSize, FlashBytes} :
       \E m \in {read_flash_range_crc(SessionMachine, start, end)} :
          Called("read_flash_range_crc", <<start, end>>, m)

FlashRead4K ==
    /\ ll.pc = "idle"
    /\ \E start \in {0, 1, SectorSize}, crc_check \in BOOLEAN :
       \E m \in {flash_read_4k(SessionMachine, start, crc_check, 0)} :
          Called("flash_read_4k", <<start, crc_check>>, m)

FlashWriteBytes ==
    /\ ll.pc = "idle"
    /\ \E start \in {SectorSize, SectorSize + 1}, n \in {WriteBlock, WriteBlock + 1},
          crc_check \in BOOLEAN, dry_run \in BOOLEAN :
       \E m \in {flash_write_bytes(SessionMachine, start, WriteData(n), crc_check,
                                   dry_run)} :
          Called("flash_write_bytes", <<start, WriteData(n), crc_check, dry_run>>, m)

FlashWrite4K ==
    /\ ll.pc = "idle"
    /\ \E start \in {0, SectorSize}, n \in {1, SectorSize, SectorSize + 1},
          crc_check \in BOOLEAN, dry_run \in BOOLEAN :
       \E m \in {flash_write_4k(SessionMachine, start, WriteData(n), crc_check,
                                dry_run)} :
          Called("flash_write_4k", <<start, WriteData(n), crc_check, dry_run>>, m)

FlashEraseBlock ==
    /\ ll.pc = "idle"
    /\ \E start \in {0, SectorSize}, size_ \in {SECTOR_4K, BLOCK_64K},
          dry_run \in BOOLEAN :
       \E m \in {flash_erase_block(SessionMachine, start, size_, dry_run, 0)} :
          Called("flash_erase_block", <<start, size_, dry_run>>, m)

FlashWriteSr ==
    /\ ll.pc = "idle"
    /\ \E sr \in {0, 512}, size_ \in {1, 2} :
       \E m \in {flash_write_sr(SessionMachine, sr, size_, 124)} :
          Called("flash_write_sr", <<sr, size_, 124>>, m)

FlashOpsNext ==
    \/ ReadFlashRangeCrc
    \/ FlashRead4K
    \/ FlashWriteBytes
    \/ FlashWrite4K
    \/ FlashEraseBlock
    \/ FlashWriteSr

SpecFlashOps == FlashOpsInit /\ [][FlashOpsNext]_vars

-----------------------------------------------------------------------------
(* The addresses in the frames.                                            *)

IsWrittenFrame(e) == e.ev = "write"

\* the frames written to the channel, in order
WrittenFrames == SelectSeq(wire, IsWrittenFrame)

\* what the session adds to an address: flash_size under
\* boot_protection_bypass, nothing otherwise
BypassOffset == IF boot_protection_bypass /\ flash_size # 0 THEN flash_size ELSE 0

\* the frames of command `op`
WrittenFramesOf(op) == {i \in 1..Len(WrittenFrames) : WrittenFrames[i].op = op}

-----------------------------------------------------------------------------
(* read_flash_range_crc.                                                   *)

\* C14: read_flash_range_crc(start, end) with start >= end raises ValueError
\* with nothing sent; otherwise the one CheckCRC it sends carries start and,
\* as its end, end - 1 on the FULL protocol and end on the others, and what
\* it returns is the chip's value with every bit inverted, which is the
\* CRC-32 of the bytes at [start, end).
C14_RangeCrc ==
    (ll.pc # "idle" /\ ll.call = "read_flash_range_crc") =>
        LET start == ll.args[1]
            end   == ll.args[2]
        IN  /\ start >= end =>
                  /\ ll.pc = "raised" /\ ll.err = "ValueError"
                  /\ log = <<>> /\ wire = <<>>
            /\ start < end =>
                  /\ Cardinality(SentOps("CheckCrc")) = 1
                  /\ log[1] = Sent("CheckCrc", start,
                                   IF protocol_type = "FULL" THEN end - 1 ELSE end)
                  /\ ll.pc = "returned" =>
                        /\ ll.ret = Not32(ChipCheckCrc([flash |-> ll.flash, dev |-> dev],
                                                       WrittenFrames[1].addrs[1],
                                                       WrittenFrames[1].addrs[2]))
                        /\ ll.ret = crc32(ChipBytes(ll.flash, start, end), ZeroCrc)

\* a range CRC on the FULL protocol over the second sector: the frame's end
\* is the last byte of the sector and the value is the sector's CRC-32
C14_Witness ==
    /\ ll.pc = "returned" /\ ll.call = "read_flash_range_crc"
    /\ protocol_type = "FULL"
    /\ ll.args = <<1, SectorSize>>
    /\ log[1] = Sent("CheckCrc", 1, SectorSize - 1)
    /\ ll.ret = crc32(ChipBytes(flash, 1, SectorSize), ZeroCrc)
    /\ flash = FlashImage

\* ceil((end - start) / crc_speed_bps)
CrcSeconds(start, end) == ((end - start) + crc_speed_bps - 1) \div crc_speed_bps

\* C15: the CheckCRC of read_flash_range_crc(start, end) is written under the
\* timeout ceil((end - start) / crc_speed_bps) when the range takes longer
\* than the timeout the channel had and under that timeout otherwise, and
\* once the call is over, returned or raised, the channel's timeout is the
\* one it had before the call.
C15_TimeoutRestored ==
    (ll.pc # "idle" /\ ll.call = "read_flash_range_crc" /\ ll.args[1] < ll.args[2]) =>
        /\ WrittenFrames[1].timeout =
              IF ll.args[2] - ll.args[1] > cmnd_timeout * crc_speed_bps
              THEN CrcSeconds(ll.args[1], ll.args[2])
              ELSE cmnd_timeout
        /\ serial_timeout = cmnd_timeout

\* C16: in a session whose chip locks the flash after CheckCRC (its
\* bootloader says so, or it is unknown and the protocol is not FULL), the
\* command sent next after a CheckCRC is LINK_CHECK, whether the CheckCRC
\* was answered or not, and no FlashErase, FlashWrite or FlashWrite4K is sent
\* after a CheckCRC without a LINK_CHECK between them.
C16_LinkCheckAfterCrc ==
    (ll.pc # "idle" /\ has_crc_flash_protect_lock(bootloader_type, protocol_type)) =>
        \A i \in SentOps("CheckCrc") :
            /\ i < Len(log) => log[i + 1].op = "LinkCheck"
            /\ \A j \in (i + 1)..Len(log) :
                  log[j].op \in {"FlashErase", "FlashWrite", "FlashWrite4K"} =>
                      \E k \in (i + 1)..(j - 1) : log[k].op = "LinkCheck"

-----------------------------------------------------------------------------
(* Erasing and writing a sector.                                           *)

IsFlashCmd(p) == p.op # "LinkCheck"

\* the packets sent, the LINK_CHECKs that follow a CheckCRC left out
FlashCmds == SelectSeq(log, IsFlashCmd)

\* the sector at `start` holds 0xFF only
SectorBlank(mem, start) ==
    \A k \in 0..(SectorSize - 1) : mem[((start + k) % Len(mem)) + 1] = 255

\* the CheckCRC packet for the sector at `start`
SectorCrcCmd(start) ==
    Sent("CheckCrc", start,
         IF protocol_type = "FULL" THEN start + SectorSize - 1 ELSE start + SectorSize)

\* C17: flash_erase_block(start, SECTOR_4K) on a session whose
\* flash_erase_checked is unset first reads the sector's CRC.  A sector that
\* is blank gets no erase command and the flag stays unset.  Every erase
\* command follows a CRC read and is followed by one; the flag is set only
\* by a call that returns after an erase and a CRC read that found the
\* sector blank; a call that raises leaves it unset.  On a chip without
\* faults a sector that is not blank takes CheckCRC, FlashErase, CheckCRC
\* and sets the flag, and a chip whose erase never takes makes the call
\* raise ValueError with the flag unset.
C17_VerifiedErase ==
    (/\ ll.pc # "idle" /\ ll.call = "flash_erase_block"
     /\ ll.args[2] = SECTOR_4K /\ ~ll.args[3] /\ ~ll.flash_erase_checked) =>
        LET start  == ll.args[1]
            cmds   == FlashCmds
            n      == Len(FlashCmds)
            blank0 == SectorBlank(ll.flash, start)
            erase  == Sent("FlashErase", start, SECTOR_4K)
        IN  /\ n >= 1 /\ cmds[1] = SectorCrcCmd(start)
            /\ \A i \in 1..n : cmds[i] \in {SectorCrcCmd(start), erase}
            /\ blank0 => /\ \A i \in 1..n : cmds[i] # erase
                         /\ ~flash_erase_checked
            /\ \A i \in 1..n :
                  cmds[i] = erase =>
                      /\ i > 1 /\ cmds[i - 1] = SectorCrcCmd(start)
                      /\ i < n => cmds[i + 1] = SectorCrcCmd(start)
            /\ flash_erase_checked =>
                  /\ ll.pc = "returned"
                  /\ SectorBlank(flash, start)
                  /\ n >= 3 /\ cmds[n] = SectorCrcCmd(start) /\ cmds[n - 1] = erase
            /\ ll.pc = "raised" => ll.err = "ValueError" /\ ~flash_erase_checked
            /\ (ll.faults = <<>> /\ blank0) => ll.pc = "returned" /\ n = 1
            /\ (ll.faults = <<>> /\ ~blank0) =>
                  /\ ll.pc = "returned" /\ flash_erase_checked
                  /\ cmds = <<SectorCrcCmd(start), erase, SectorCrcCmd(start)>>
            /\ (ll.faults = Fill(write_retries + 1, Fault("FlashErase", "nop"))
                   /\ ~blank0) =>
                  /\ ll.pc = "raised" /\ ll.err = "ValueError"
                  /\ ~flash_erase_checked /\ ~SectorBlank(flash, start)
                  /\ n = 3 * (write_retries + 1)

\* the first erase of a session on a sector that holds data: one erase that
\* did not take, found by the CRC read after it, then one that did
C17_Witness ==
    /\ ll.pc = "returned" /\ ll.call = "flash_erase_block"
    /\ ll.args = <<SectorSize, SECTOR_4K, FALSE>>
    /\ ~ll.flash_erase_checked /\ flash_erase_checked
    /\ ll.flash = FlashImage /\ SectorBlank(flash, SectorSize)
    /\ ll.faults = <<Fault("FlashErase", "nop")>>
    /\ Len(FlashCmds) = 6
    /\ FlashCmds[5] = Sent("FlashErase", SectorSize, SECTOR_4K)

\* the positions of the FlashWrite4K packets among FlashCmds
Writes4K == {i \in 1..Len(FlashCmds) : FlashCmds[i].op = "FlashWrite4K"}

\* the r-th FlashWrite4K of the call was answered
Answered4K(r) ==
    ~(r <= Len(ll.faults) /\ ll.faults[1] = Fault("FlashWrite4K", "silent"))

-----------------------------------------------------------------------------
(* Errors of the low-level flash commands.                                 *)

\* the commands a call repeats when it retries, and its retries
RetriedOps(call) ==
    IF call = "flash_read_4k" THEN {"FlashRead4K"}
    ELSE IF call = "flash_write_bytes" THEN {"FlashWrite"}
    ELSE IF call = "flash_write_4k" THEN {"FlashWrite4K"}
    ELSE IF call = "flash_write_sr" THEN {"FlashReg8Write", "FlashReg16Write"}
    ELSE {}

RetryBudget(call) == IF call = "flash_read_4k" THEN read_retries ELSE write_retries

\* C19: a low-level flash command that raises because of the chip's replies
\* (a read of the wrong length, a short write, a status register that reads
\* back different) has sent its command once more than its retries: one plus
\* read_retries for flash_read_4k, one plus write_retries for
\* flash_write_bytes, flash_write_4k and flash_write_sr.
C19_RetriedBeforeSurfacing ==
    (/\ ll.pc = "raised"
     /\ ll.call \in {"flash_read_4k", "flash_write_bytes", "flash_write_4k",
                     "flash_write_sr"}
     /\ log # <<>> /\ ll.faults # <<>>
     /\ \A k \in 1..Len(ll.faults) :
           ll.faults[k].op \in RetriedOps(ll.call) /\ ll.faults[k].kind = "nop") =>
        Cardinality({i \in 1..Len(log) : log[i].op \in RetriedOps(ll.call)})
            = RetryBudget(ll.call) + 1

\* C20: flash_read_4k(start) with a start that is no multiple of the sector
\* size raises and sends nothing.
C20_AlignedRead ==
    (ll.pc # "idle" /\ ll.call = "flash_read_4k" /\ SectorOffset(ll.args[1]) # 0) =>
        /\ ll.pc = "raised"
        /\ log = <<>> /\ wire = <<>>

-----------------------------------------------------------------------------
(* SpecHighLevel is one generator of cmd_hl_flash.py, flash_read or        *)
(* program_flash, resumed until it ends.                                   *)

HighLevelInit == FlashReadInit \/ ProgramInit

HighLevelNext == FlashReadNextStep \/ ProgramNext

SpecHighLevel == HighLevelInit /\ [][HighLevelNext]_vars

\* C21: a program_flash whose start is off the sector boundary without
\* really_erase, or whose start + io_size lies beyond a known flash_size,
\* raises ValueError at its first resumption with no command sent and
\* nothing yielded; a flash_read whose start + length lies beyond a known
\* flash_size does the same.
C21_LayoutRejected ==
    /\ (/\ pg.pc \notin {"idle", "created"}
        /\ \/ SectorOffset(pg.start) # 0 /\ ~pg.really_erase
           \/ flash_size # 0 /\ pg.start + pg.io_size > flash_size) =>
          /\ pg.pc = "raised" /\ pg.err = "ValueError"
          /\ log = <<>> /\ wire = <<>> /\ yields = <<>>
    /\ (/\ rd.pc \notin {"idle", "created"}
        /\ flash_size # 0 /\ rd.args[1] + rd.args[2] > flash_size) =>
          /\ rd.pc = "raised" /\ rd.err = "ValueError"
          /\ log = <<>> /\ wire = <<>> /\ chunks = <<>>

\* a program_flash on the FULL protocol from an aligned start whose data
\* ends one byte beyond the flash: rejected before the status register is
\* touched
C21_Witness ==
    /\ pg.pc = "raised" /\ pg.err = "ValueError"
    /\ protocol_type = "FULL"
    /\ SectorOffset(pg.start) = 0
    /\ flash_size = FlashBytes /\ pg.start + pg.io_size = FlashBytes + 1
    /\ log = <<>>

-----------------------------------------------------------------------------
(* The sector loop of program_flash.                                       *)

\* where the sector loop starts, and where the data ends
BodyStart ==
    IF SectorOffset(pg.start) = 0 THEN pg.start
    ELSE SectorBase(pg.start) + SectorSize

ProgramEnd == pg.start + pg.io_size

\* the sectors the sector loop has been through
BodySectors ==
    {a \in 0..FlashBytes :
        /\ SectorOffset(a) = 0 /\ BodyStart <= a /\ a < ProgramEnd
        /\ pg.pc = "returned" \/ (pg.pc = "body" /\ a <= pg.addr)}

\* the chunk the loop read for the sector at a
BodyChunk(a) ==
    Slice(pg.data, a - pg.start, Min(a - pg.start + SectorSize, pg.io_size))

AllFF(block) == \A k \in 1..Len(block) : block[k] = 255

\* the packets sent but for the CRC read of the whole range that ends a call
\* with crc_check
LoopLog ==
    IF pg.pc = "returned" /\ pg.crc_check /\ SentOps("CheckCrc") # {}
    THEN SubSeq(log, 1, (CHOOSE i \in SentOps("CheckCrc") :
                            \A j \in SentOps("CheckCrc") : j <= i) - 1)
    ELSE log

\* the CRC reads, erases and sector writes sent for the sector at a
SectorLog(a) ==
    LET mine(p) == p.op \in {"CheckCrc", "FlashErase", "FlashWrite4K"} /\ p.a = a
    IN  SelectSeq(LoopLog, mine)

\* what flash_erase_block sends for a sector: the erase alone once erases
\* are trusted; before that the CRC read alone for a sector found erased, or
\* the CRC read, the erase and the CRC read
EraseSteps ==
    { <<"FlashErase">>, <<"CheckCrc">>, <<"CheckCrc", "FlashErase", "CheckCrc">> }

RECURSIVE SumSeq(_)
SumSeq(q) == IF q = <<>> THEN 0 ELSE Head(q) + SumSeq(Tail(q))

\* the sectors the writes and erases among the packets lg go to
SectorsTouched(lg) ==
    {SectorBase(lg[i].a) : i \in {j \in 1..Len(lg) :
        lg[j].op \in {"FlashWrite", "FlashWrite4K", "FlashErase"}}}

\* the writes among the packets lg
WritesIn(lg) ==
    {i \in 1..Len(lg) : lg[i].op \in {"FlashWrite", "FlashWrite4K"}}

\* what a program_flash generator is at every moment: nothing sent and
\* nothing yielded before the first resumption, every item the size of a
\* chunk taken from the stream, their sum the bytes taken so far and, once
\* the generator has returned, io_size
ProgramLazy ==
    /\ pg.pc = "created" => log = <<>> /\ wire = <<>> /\ yields = <<>>
    /\ pg.pc \in {"head", "body", "returned"} =>
          /\ \A k \in 1..Len(yields) : yields[k] >= 1
          /\ SumSeq(yields) = pg.io_size - Len(pg.io)
          /\ Len(yields) <= pg.io_size
    /\ pg.pc = "returned" => SumSeq(yields) = pg.io_size

\* one resumption of a program_flash generator: it yields one item after the
\* writes and erases of one chunk in one sector, or it ends without an item;
\* the resumption that returns writes nothing
ProgramPull ==
    pg' # pg =>
        LET new == SubSeq(log', Len(log) + 1, Len(log'))
        IN  /\ \/ Len(yields') = Len(yields) + 1 /\ pg'.pc \in {"head", "body"}
               \/ yields' = yields /\ pg'.pc \in {"returned", "raised"}
            /\ Cardinality(SectorsTouched(new)) <= 1
            /\ Cardinality(WritesIn(new)) <= 1
            /\ pg'.pc = "returned" => WritesIn(new) = {}

\* C23: program_flash sends nothing before its first item is requested;
\* every request handles one chunk and yields its size, or ends the
\* sequence; the items are at most io_size many, and for a stream of
\* exactly io_size bytes the sizes yielded by a generator that returned sum
\* to io_size.
C23_LazyFinite == []ProgramLazy /\ [][ProgramPull]_vars

\* an unaligned write that returned after items from both loops
C23_Witness ==
    /\ pg.pc = "returned"
    /\ SectorOffset(pg.start) # 0
    /\ Len(yields) >= 3
    /\ \E k \in 1..Len(yields) : yields[k] = SectorSize
    /\ \E k \in 1..Len(yields) : yields[k] < WriteBlock
    /\ SumSeq(yields) = pg.io_size
    /\ log # <<>>

-----------------------------------------------------------------------------
(* SpecUnprotect is one flash_unprotect(mask) call on a session whose flash *)
(* chip the status register table knows or does not know.                 *)

\* flash ids: two status register bytes, one, and not in the table
UnprotectIds == { <<200, 64, 21>>, <<28, 49, 19>>, <<1, 2, 3>> }

\* status registers: clear, the protection bits, protection and others
UnprotectSrs == {0, 124, 130, 636, 65535}

UnprotectFaults ==
    { <<>>,
      <<Fault("FlashReg8Write", "nop")>>, <<Fault("FlashReg16Write", "nop")>>,
      <<Fault("FlashReg8Write", "silent")>>, <<Fault("FlashReg16Write", "silent")>>,
      <<Fault("FlashReg8Read", "silent")>>, <<Fault("FlashReg24Read", "silent")>> }

UnprotectInit ==
    /\ protocol_type \in {"FULL", "BASIC_BEKEN"}
    /\ bootloader_type = "None"
    /\ flash_size = 0 /\ boot_protection_bypass = TRUE
    /\ flash_erase_checked = FALSE
    /\ chip_id \in UnprotectIds
    /\ flash_id \in {<<>>, chip_id}
    /\ chip_sr \in UnprotectSrs
    /\ flash = FlashImage
    /\ log = <<>>
    /\ dev = ChipFor(protocol_type) /\ LinkIdle
    /\ serial_timeout = cmnd_timeout
    /\ faults \in UnprotectFaults
    /\ ll = [pc |-> "idle"] /\ AuxIdle
    /\ rd = [pc |-> "idle"] /\ chunks = <<>>
    /\ pg = [pc |-> "idle"] /\ yields = <<>>
    /\ CodecIdle /\ CmdIdle

FlashUnprotect ==
    /\ ll.pc = "idle"
    /\ \E mask \in {124, 28} :
       \E m \in {flash_unprotect(SessionMachine, mask)} :
          Called("flash_unprotect", <<mask>>, m)

SpecUnprotect == UnprotectInit /\ [][FlashUnprotect]_vars

\* the status register writes among the packets sent
SrWrites == SentOps("FlashReg8Write") \cup SentOps("FlashReg16Write")

\* the status register as a register of `width` bytes shows it
SrSeen(sr, width) == IF width = 1 THEN sr % 256 ELSE sr

\* C24: flash_unprotect(mask) writes nothing and raises ValueError when the
\* flash id is not in FLASH_SR_SIZE.  For an id in the table it writes at
\* most once, with the register write of the table's width, the value it
\* read with the bits of the mask cleared and the other bits as they were;
\* it returns only after a write, with the bits of the mask clear in the
\* register; a write that does not take while a bit of the mask is set ends
\* in RuntimeError; and on a chip without faults it returns.
C24_Unprotect ==
    (ll.pc # "idle" /\ ll.call = "flash_unprotect") =>
        LET mask  == ll.args[1]
            known == \E row \in FLASH_SR_SIZE : row[1] = flash_id
            width == (CHOOSE row \in FLASH_SR_SIZE : row[1] = flash_id)[2]
            seen  == SrSeen(ll.chip_sr, width)
        IN  /\ ~known =>
                  /\ ll.pc = "raised" /\ SrWrites = {} /\ chip_sr = ll.chip_sr
                  /\ flash_id # <<>> => ll.err = "ValueError"
            /\ known =>
                  /\ Cardinality(SrWrites) <= 1
                  /\ \A i \in SrWrites :
                        /\ log[i].op = IF width = 1 THEN "FlashReg8Write"
                                       ELSE "FlashReg16Write"
                        /\ log[i].a = 1
                        /\ log[i].b + And(seen, mask) = seen
                        /\ And(log[i].b, mask) = 0
                  /\ ll.pc = "returned" =>
                        /\ SrWrites # {}
                        /\ And(SrSeen(chip_sr, width), mask) = 0
                  /\ (ll.faults # <<>> /\ ll.faults[1].kind = "nop"
                         /\ SrWrites # {} /\ log[CHOOSE i \in SrWrites : TRUE].op
                                                = ll.faults[1].op
                         /\ And(seen, mask) # 0) =>
                        /\ ll.pc = "raised" /\ ll.err = "RuntimeError"
                        /\ chip_sr = ll.chip_sr
                  /\ ll.faults = <<>> =>
                        /\ ll.pc = "returned"
                        /\ SrSeen(chip_sr, width) + And(seen, mask) = seen

\* a chip with two status register bytes, protection bits and another bit
\* set: one 16-bit write that keeps the other bit
C24_Witness ==
    /\ ll.pc = "returned" /\ ll.call = "flash_unprotect" /\ ll.args = <<124>>
    /\ flash_id = <<200, 64, 21>>
    /\ ll.chip_sr = 636 /\ chip_sr = 512
    /\ Cardinality(SentOps("FlashReg16Write")) = 1

-----------------------------------------------------------------------------
(* SpecReset is one hw_reset() call (protocol.py), statement by statement, *)
(* on a channel whose lines are at any level.                              *)

ResetInit ==
    /\ lines \in [rts : BOOLEAN, dtr : BOOLEAN] /\ serial = SerialOpen
    /\ an = [pc |-> "idle"]
    /\ protocol_type \in DOMAIN ProtocolType
    /\ serial_baudrate \in {LinkBaud, 921600}
    /\ ll = [pc |-> "hw_reset", at |-> "rts_on"]
    /\ boot_protection_bypass \in BOOLEAN /\ serial_timeout = cmnd_timeout
    /\ faults = <<>>
    /\ ident = IdentDefaults /\ wire = <<>> /\ conn = [pc |-> "idle"]
    /\ dev = Chip(0)
    /\ packet = Pkt("BkLinkCheckCmnd", <<>>, <<>>) /\ encoded = <<>>
    /\ CmdIdle /\ SessDefaults /\ FlashIdle

\* the statement of hw_reset at `at` sets `line` to `level`, or sleeps, and
\* control moves on to `next`
ResetStep(at, line, level, next) ==
    /\ ll.pc = "hw_reset" /\ ll.at = at
    /\ lines' = IF line = "rts" THEN [lines EXCEPT !.rts = level]
                ELSE IF line = "dtr" THEN [lines EXCEPT !.dtr = level]
                ELSE lines
    /\ ll' = IF next = "" THEN [pc |-> "returned", at |-> ""]
             ELSE [ll EXCEPT !.at = next]
    /\ UNCHANGED <<codecVars, engVars, sessVars, chipVars, readVars, progVars,
                   linkVars, boot_protection_bypass, serial_timeout, faults, an, serial>>

\* self.serial.rts = True
ResetRtsOn ==
    /\ ll.pc = "hw_reset"
    /\ ResetStep("rts_on", "rts", TRUE, "dtr_on")

\* self.serial.dtr = True
ResetDtrOn ==
    /\ ll.pc = "hw_reset"
    /\ ResetStep("dtr_on", "dtr", TRUE, "sleep")

\* sleep(0.1)
ResetSleep ==
    /\ ll.pc = "hw_reset"
    /\ ResetStep("sleep", "", TRUE, "rts_off")

\* self.serial.rts = False
ResetRtsOff ==
    /\ ll.pc = "hw_reset"
    /\ ResetStep("rts_off", "rts", FALSE, "dtr_off")

\* self.serial.dtr = False
ResetDtrOff ==
    /\ ll.pc = "hw_reset"
    /\ ResetStep("dtr_off", "dtr", FALSE, "")

ResetNext ==
    \/ ResetRtsOn
    \/ ResetDtrOn
    \/ ResetSleep
    \/ ResetRtsOff
    \/ ResetDtrOff

SpecReset == ResetInit /\ [][ResetNext]_vars

\* a step of hw_reset releases DTR only while RTS is asserted and stays so,
\* and releases RTS only when DTR is released already
ResetRelease ==
    /\ (lines.dtr /\ ~lines'.dtr) => (lines.rts /\ lines'.rts)
    /\ (lines.rts /\ ~lines'.rts) => ~lines.dtr

\* C25: hw_reset has both RTS and DTR asserted when its sleep is over, then
\* releases DTR while RTS is still asserted, and releases RTS only after
\* that; it returns with both released.
C25_ResetOrder ==
    /\ []((ll.pc = "hw_reset" /\ ll.at = "rts_off") => (lines.rts /\ lines.dtr))
    /\ [](ll.pc = "returned" => (~lines.rts /\ ~lines.dtr))
    /\ [][ResetRelease]_vars

-----------------------------------------------------------------------------
(* Packet.deserialize (serial/base/packets.py) and SpecRoundTrip: a packet *)
(* of each class is serialized and the bytes are deserialized by its class *)

\* the number of values a format packs
RECURSIVE NValues(_)
NValues(fmt) ==
    IF fmt = <<>> THEN 0
    ELSE (IF Head(fmt) \in {"B", "H", "I"} THEN 1 ELSE 0) + NValues(Tail(fmt))

\* struct.unpack(fmt, data) for data of calcsize(fmt) bytes
RECURSIVE unpack(_, _)
unpack(fmt, data) ==
    IF fmt = <<>> THEN <<>>
    ELSE IF Head(fmt) = "<" THEN unpack(Tail(fmt), data)
    ELSE IF Head(fmt) = "x" THEN unpack(Tail(fmt), Tail(data))
    ELSE LET w == FormatWidth(Head(fmt))
         IN  <<FromLE(SubSeq(data, 1, w))>>
             \o unpack(Tail(fmt), SubSeq(data, w + 1, Len(data)))

\* class EraseSize(IntEnum)
EraseSize == [SECTOR_4K |-> SECTOR_4K, BLOCK_64K |-> BLOCK_64K]

EraseSizeValues == {EraseSize[n] : n \in DOMAIN EraseSize}

\* the classes' field annotations: what each integer field of an instance is
FieldTypes(cls) ==
    IF cls = "BkFlashEraseBlockCmnd" THEN <<"EraseSize", "int">>
    ELSE [i \in 1..NValues(PacketClasses[cls].FORMAT) |-> "int"]

\* Packet.deserialize: cls(*fields), the fields being what unpack returns
\* (plain integers) and, for a "$" format, the rest of the data;
\* struct.error when the data does not have the format's size
Packet_deserialize(cls, data) ==
    LET fmt   == PacketClasses[cls].FORMAT
        fixed == IF EndsWithDollar(fmt) THEN SubSeq(fmt, 1, Len(fmt) - 1) ELSE fmt
        sz    == calcsize(fixed)
    IN  IF Len(data) < sz \/ (~EndsWithDollar(fmt) /\ Len(data) # sz)
        THEN [err |-> "struct.error"]
        ELSE [cls    |-> cls,
              fields |-> unpack(fixed, SubSeq(data, 1, sz)),
              types  |-> [i \in 1..NValues(fixed) |-> "int"],
              data   |-> SubSeq(data, sz + 1, Len(data))]

\* BkFlashEraseBlockCmnd.deserialize: erase_size becomes EraseSize(erase_size),
\* a ValueError for a number that is no member
BkFlashEraseBlockCmnd_deserialize(data) ==
    LET pkt == Packet_deserialize("BkFlashEraseBlockCmnd", data)
    IN  IF "err" \in DOMAIN pkt THEN pkt
        ELSE IF pkt.fields[1] \notin EraseSizeValues THEN [err |-> "ValueError"]
        ELSE [pkt EXCEPT !.types[1] = "EraseSize"]

\* the same, every class deserialized by Packet.deserialize
deserialize_base_only(cls, data) == Packet_deserialize(cls, data)

\* cls.deserialize(data)
deserialize(cls, data) ==
    IF cls = "BkFlashEraseBlockCmnd" THEN BkFlashEraseBlockCmnd_deserialize(data)
    ELSE Packet_deserialize(cls, data)

\* the values of a field of each struct format character
FieldRange(c) ==
    CASE c = "B" -> {0, SECTOR_4K, BLOCK_64K, 255}
      [] c = "H" -> {0, 636, 65535}
      [] c = "I" -> {0, 2166784, 2147483647}

\* the field valuations of a format
RECURSIVE Valuations(_)
Valuations(fmt) ==
    IF fmt = <<>> THEN {<<>>}
    ELSE IF Head(fmt) \in {"B", "H", "I"}
    THEN {<<v>> \o rest : v \in FieldRange(Head(fmt)), rest \in Valuations(Tail(fmt))}
    ELSE Valuations(Tail(fmt))

RoundTripData == {<<>>, <<0>>, <<255, 0, 4>>}

\* the instances of a class: erase_size is a member of EraseSize
InstancesOf(cls) ==
    LET fmt == PacketClasses[cls].FORMAT
    IN  {Pkt(cls, f, d) :
            f \in {v \in Valuations(fmt) :
                     cls = "BkFlashEraseBlockCmnd" => v[1] \in EraseSizeValues},
            d \in IF EndsWithDollar(fmt) THEN RoundTripData ELSE {<<>>}}

RoundTripPackets ==
    UNION {InstancesOf(cls) : cls \in DOMAIN PacketClasses}

RoundTripInit ==
    /\ packet \in RoundTripPackets
    /\ encoded = <<>>
    /\ an = [pc |-> "called", call |-> "serialize"]
    /\ lines = [rts |-> FALSE, dtr |-> FALSE] /\ serial = SerialOpen
    /\ protocol_type = "UNKNOWN"
    /\ CmdIdle /\ SessDefaults /\ FlashIdle
    /\ dev = Chip(0) /\ LinkIdle
    /\ boot_protection_bypass = TRUE /\ serial_timeout = cmnd_timeout
    /\ faults = <<>> /\ ll = [pc |-> "idle"]

\* data = packet.serialize()
Serialize ==
    /\ an.pc = "called"
    /\ an' = [pc |-> "serialized", call |-> "deserialize",
              data |-> serialize(packet)]
    /\ UNCHANGED <<codecVars, engVars, sessVars, chipVars, readVars, progVars,
                   linkVars, opsVars, lines, serial>>

\* type(packet).deserialize(data)
Deserialize ==
    /\ an.pc = "serialized"
    /\ an' = [pc |-> "returned", call |-> "deserialize", data |-> an.data,
              ret |-> deserialize(packet.cls, an.data)]
    /\ UNCHANGED <<codecVars, engVars, sessVars, chipVars, readVars, progVars,
                   linkVars, opsVars, lines, serial>>

RoundTripNext ==
    \/ Serialize
    \/ Deserialize

SpecRoundTrip == RoundTripInit /\ [][RoundTripNext]_vars

-----------------------------------------------------------------------------
(* analysis/rbl.py: find_rbl_containers_indices, and SpecFindRbl, which    *)
(* calls it on every short stream over the magic's bytes and a filler      *)

\* Header.MAGIC = b"RBL\x00"
MAGIC == <<82, 66, 76, 0>>

\* __HEADER_MAGIC_NEEDLE: the magic's first byte and the rest
MagicNeedle    == SubSeq(MAGIC, 1, 1)
MagicRemainder == SubSeq(MAGIC, 2, Len(MAGIC))

\* bytestream.read(n) at position pos: the bytes read
StreamRead(data, pos, n) == SubSeq(data, pos + 1, Min(pos + n, Len(data)))

\* the while loop of find_rbl_containers_indices with the stream at pos
\* and rbl_locations as collected so far
RECURSIVE FindLoop(_, _, _)
FindLoop(data, pos, rbl_locations) ==
    LET c == StreamRead(data, pos, Len(MagicNeedle))
    IN  IF c = <<>> THEN rbl_locations
        ELSE LET at        == pos + Len(c)
                 location  == at - 1
                 remainder == StreamRead(data, at, Len(MagicRemainder))
             IN  IF c = MagicNeedle
                 THEN FindLoop(data, at + Len(remainder),
                               IF remainder = MagicRemainder
                               THEN Append(rbl_locations, location)
                               ELSE rbl_locations)
                 ELSE FindLoop(data, at, rbl_locations)

\* the same, the remainder looked at without being consumed
find_rbl_containers_indices_peek(stream) ==
    LET RECURSIVE Scan(_, _)
        Scan(pos, found) ==
            IF pos >= Len(stream.data) THEN found
            ELSE Scan(pos + 1,
                      IF StreamRead(stream.data, pos, Len(MAGIC)) = MAGIC
                      THEN Append(found, pos) ELSE found)
    IN  [ret |-> Scan(stream.pos, <<>>), pos |-> stream.pos]

\* find_rbl_containers_indices(bytestream): the list returned and the
\* position the stream is left at (the final seek to oldpos)
find_rbl_containers_indices(stream) ==
    LET oldpos == stream.pos
    IN  [ret |-> FindLoop(stream.data, oldpos, <<>>), pos |-> oldpos]

\* the longest stream searched
MaxStream == 6

\* 'R', 'B', 'L', 0x00 and a byte that is none of them
FindBytes == {82, 66, 76, 0, 255}

FindStreams == {s \in SeqsUpTo(FindBytes, MaxStream) : Len(s) >= 3}

FindRblInit ==
    /\ \E data \in FindStreams, pos \in 0..1 :
          an = [pc |-> "called", call |-> "find_rbl_containers_indices",
                stream |-> [data |-> data, pos |-> pos]]
    /\ lines = [rts |-> FALSE, dtr |-> FALSE] /\ serial = SerialOpen
    /\ CodecIdle /\ protocol_type = "UNKNOWN"
    /\ CmdIdle /\ SessDefaults /\ FlashIdle
    /\ dev = Chip(0) /\ LinkIdle
    /\ boot_protection_bypass = TRUE /\ serial_timeout = cmnd_timeout
    /\ faults = <<>> /\ ll = [pc |-> "idle"]

FindRblContainersIndices ==
    /\ an.pc = "called" /\ an.call = "find_rbl_containers_indices"
    /\ \E r \in {find_rbl_containers_indices(an.stream)} :
          an' = [pc |-> "returned", call |-> an.call, entered |-> an.stream,
                 stream |-> [an.stream EXCEPT !.pos = r.pos], ret |-> r.ret]
    /\ UNCHANGED <<codecVars, engVars, sessVars, chipVars, readVars, progVars,
                   linkVars, opsVars, lines, serial>>

FindRblNext == FindRblContainersIndices

SpecFindRbl == FindRblInit /\ [][FindRblNext]_vars

\* the magic stands at offset o of data
MagicAt(data, o) == StreamRead(data, o, Len(MAGIC)) = MAGIC

\* the offsets from `from` on at which the magic stands
Occurrences(data, from) == {o \in from..Len(data) : MagicAt(data, o)}

\* the members of a set of numbers, ascending
RECURSIVE Ascending(_)
Ascending(S) ==
    IF S = {} THEN <<>>
    ELSE LET lo == CHOOSE x \in S : \A y \in S : x <= y
         IN  <<lo>> \o Ascending(S \ {lo})

\* C27: find_rbl_containers_indices returns, ascending, exactly the offsets
\* (from the stream's position on entry) at which 'R','B','L',0x00 stand,
\* whatever bytes precede an occurrence, and leaves the stream at the
\* position it had on entry.
C27_FindsEveryMagic ==
    (an.pc = "returned" /\ an.call = "find_rbl_containers_indices") =>
        /\ an.ret = Ascending(Occurrences(an.entered.data, an.entered.pos))
        /\ an.stream.pos = an.entered.pos

-----------------------------------------------------------------------------
(* analysis/rbl.py: Header and Container.from_bytestream.  The header is   *)
(* scaled: the fields that decide the parse keep their order (magic, algo, *)
(* name, crc32, size_raw, size_package, info_crc32) with one byte where    *)
(* the format has a 32-bit size or flag word and NameSize bytes of name;   *)
(* the two CRC-32 fields keep their four bytes.  The 32+2 interleaving is  *)
(* CrcBlock data bytes followed by the two bytes of their CRC-16.          *)

\* bytes of the name field (16 in Header.FORMAT)
NameSize == 3

\* data bytes per CRC-16 (32 on flash)
CrcBlock == 6

\* Header.FORMAT.size
HeaderSize == Len(MAGIC) + 1 + NameSize + 4 + 1 + 1 + 4

\* one bit step of the CRC-16: shift left, the polynomial 0x8005 folded in
\* when the top bit falls out
Crc16Shift(crc) ==
    IF crc >= 32768 THEN Xor((crc * 2) % 65536, 32773) ELSE crc * 2

RECURSIVE Crc16Bits(_, _)
Crc16Bits(crc, n) == IF n = 0 THEN crc ELSE Crc16Bits(Crc16Shift(crc), n - 1)

\* the CRC-16 of each single byte
Crc16Table == [v \in Byte |-> Crc16Bits(v * 256, 8)]

\* crc16(block, initial_value): the CRC-16 of polynomial 0x8005, most
\* significant bit first, a byte at a time
RECURSIVE crc16(_, _)
crc16(block, initial_value) ==
    IF block = <<>> THEN initial_value
    ELSE crc16(Tail(block),
               Xor((initial_value % 256) * 256,
                   Crc16Table[Xor(initial_value \div 256, Head(block))]))

\* block_crc_check(block, crc_bytes); struct.error when crc_bytes is not
\* two bytes long
block_crc_check(block, crc_bytes) ==
    IF Len(crc_bytes) # 2 THEN [err |-> "struct.error"]
    ELSE [ok |-> crc16(block, 65535) = crc_bytes[1] * 256 + crc_bytes[2]]

\* the block loop of __create_bytestream_without_crc from position pos
RECURSIVE StripBlocks(_, _)
StripBlocks(data, pos) ==
    LET block == StreamRead(data, pos, CrcBlock)
    IN  IF block = <<>> THEN <<>>
        ELSE block \o StripBlocks(data, pos + Len(block) + 2)

\* Container.__create_bytestream_without_crc(bytestream) with the stream at
\* pos: the new stream's bytes, or the error raised
create_bytestream_without_crc(data, pos) ==
    LET crc_blocks == StreamRead(data, pos, CrcBlock + 4)
        first  == block_crc_check(Slice(crc_blocks, 0, CrcBlock),
                                  Slice(crc_blocks, CrcBlock, CrcBlock + 2))
        second == block_crc_check(Slice(crc_blocks, 2, CrcBlock + 2),
                                  Slice(crc_blocks, CrcBlock + 2, CrcBlock + 4))
    IN  IF "err" \in DOMAIN first THEN first
        ELSE IF first.ok THEN [data |-> StripBlocks(data, pos)]
        ELSE IF "err" \in DOMAIN second THEN second
        ELSE IF second.ok THEN [data |-> StripBlocks(data, pos + 2)]
        ELSE [data |-> StripBlocks(data, pos + Len(crc_blocks))]

\* __clean_c_string(x): the bytes before the first NUL; ValueError when
\* there is none
clean_c_string(x) ==
    IF \A i \in 1..Len(x) : x[i] # 0 THEN [err |-> "ValueError"]
    ELSE LET nul == CHOOSE i \in 1..Len(x) :
                       x[i] = 0 /\ \A j \in 1..(i - 1) : x[j] # 0
         IN  [str |-> SubSeq(x, 1, nul - 1)]

\* Header.from_bytes(data): struct.error when data is not HeaderSize bytes,
\* ValueError when the header CRC-32 or a string is wrong
Header_from_bytes(data) ==
    IF Len(data) # HeaderSize THEN [err |-> "struct.error"]
    ELSE LET at   == Len(MAGIC)
             name == clean_c_string(SubSeq(data, at + 2, at + 1 + NameSize))
             rest == at + 1 + NameSize
         IN  IF crc32(SubSeq(data, 1, HeaderSize - 4), ZeroCrc)
                  # SubSeq(data, HeaderSize - 3, HeaderSize)
             THEN [err |-> "ValueError"]
             ELSE IF "err" \in DOMAIN name THEN name
             ELSE [magic        |-> SubSeq(data, 1, at),
                   algo         |-> data[at + 1],
                   name         |-> name.str,
                   crc32        |-> SubSeq(data, rest + 1, rest + 4),
                   size_raw     |-> data[rest + 5],
                   size_package |-> data[rest + 6],
                   info_crc32   |-> SubSeq(data, HeaderSize - 3, HeaderSize)]

\* Header.to_bytes()
Header_to_bytes(h) ==
    h.magic \o <<h.algo>> \o h.name \o h.crc32 \o <<h.size_raw, h.size_package>>
    \o h.info_crc32

\* FlashPartition(name, size) and FlashLayout(partitions, with_crc)
FlashPartition(name, sz) == [name |-> name, size |-> sz]

\* Header.FORMAT.size // 32 * 2
CrcByteCount == (HeaderSize \div CrcBlock) * 2

\* Container.__create_bytestream_for_layout(header, bytestream, flash_layout)
\* with the stream at start_position: the new stream's bytes or the error
create_bytestream_for_layout(header, data, start_position, layout) ==
    LET named == {i \in 1..Len(layout.partitions) :
                    layout.partitions[i].name = header.name}
    IN  IF named = {} THEN [err |-> "StopIteration"]
        ELSE LET partition == layout.partitions[CHOOSE i \in named :
                                                  \A j \in named : i <= j]
                 package_position == start_position - partition.size
                 package_read_bytes ==
                     partition.size - HeaderSize
                     - (IF layout.with_crc THEN CrcByteCount ELSE 0)
                 new_stream ==
                     StreamRead(data, package_position, package_read_bytes)
             IN  IF package_position < 0 THEN [err |-> "ValueError"]
                 ELSE IF layout.with_crc
                 THEN create_bytestream_without_crc(new_stream, 0)
                 ELSE [data |-> new_stream]

\* the payload part of from_bytestream: the container, its payload None
\* when the payload CRC-32 is not the header's, or the ValueError of
\* bytes([padding]) for a padding outside a byte
ContainerOf(header, stream) ==
    LET payload == Slice(stream, 0, header.size_package)
        padding == header.size_package - header.size_raw
        padded  == IF header.algo = 0
                   THEN Slice(payload, 0, header.size_raw) \o Fill(padding, padding)
                   ELSE payload
    IN  IF header.algo = 0 /\ padding \notin 0..255 THEN [err |-> "ValueError"]
        ELSE LET valid == crc32(padded, ZeroCrc) = header.crc32
             IN  [header      |-> header,
                  has_payload |-> valid,
                  payload     |-> IF valid THEN padded ELSE <<>>]

\* Container.from_bytestream(bytestream, flash_layout) with the stream at
\* idx: the container (has_payload FALSE for a payload of None) or the
\* exception raised
from_bytestream(data, idx, layout) ==
    LET magic  == StreamRead(data, idx, Len(MAGIC))
        hs     == IF layout.with_crc THEN create_bytestream_without_crc(data, idx)
                  ELSE [data |-> StreamRead(data, idx, HeaderSize)]
        header == IF "err" \in DOMAIN hs THEN hs
                  ELSE Header_from_bytes(Slice(hs.data, 0, HeaderSize))
        after  == idx + HeaderSize + (IF layout.with_crc THEN CrcByteCount ELSE 0)
        stream == create_bytestream_for_layout(header, data, after, layout)
    IN  IF magic # MAGIC THEN [err |-> "ValueError"]
        ELSE IF "err" \in DOMAIN header THEN header
        ELSE IF "err" \in DOMAIN stream THEN stream
        ELSE ContainerOf(header, stream.data)

-----------------------------------------------------------------------------
(* SpecCarve: __carve_and_write_rbl_containers (__main__.py) without       *)
(* extraction, on dumps put together from partition images                 *)

\* the 32+2 format: every CrcBlock bytes followed by their CRC-16, big-endian
RECURSIVE Interleave(_)
Interleave(data) ==
    IF data = <<>> THEN <<>>
    ELSE LET block == Slice(data, 0, CrcBlock)
             crc   == crc16(block, 65535)
         IN  block \o <<crc \div 256, crc % 256>>
             \o Interleave(Slice(data, CrcBlock, Len(data)))

\* a name as the bytes of the header's name field
NameField(name) == name \o Fill(NameSize - Len(name), 0)

\* a header whose info_crc32 is right
HeaderFor(name, crc, size_raw, size_package) ==
    LET body == MAGIC \o <<0>> \o name \o crc \o <<size_raw, size_package>>
    IN  body \o crc32(body, ZeroCrc)

\* payload bytes of a partition image: the raw bytes, padded to the package
PackageOf(raw, size_package) ==
    raw \o Fill(size_package - Len(raw), size_package - Len(raw))

\* FLASH_LAYOUTS["ota_1"], the partitions scaled to one and two payload
\* blocks before the header
CarveLayout ==
    LET onflash == HeaderSize + CrcByteCount
    IN  [name |-> "ota_1", with_crc |-> TRUE,
         partitions |-> <<FlashPartition(<<98>>, (CrcBlock + 2) + onflash),
                          FlashPartition(<<97>>, 2 * (CrcBlock + 2) + onflash)>>]

\* the image of a partition: its payload area, then `header`
ImageOf(partition, package, header) ==
    LET room == ((partition.size - HeaderSize - CrcByteCount) \div (CrcBlock + 2))
                * CrcBlock
    IN  Interleave(package \o Fill(room - Len(package), 255)) \o Interleave(header)

CarveRaw == <<1, 2, 3, 4>>

\* what a dump is put together from: for each partition a good image, one
\* whose payload is not the one the header's crc32 is of, one with a wrong
\* header CRC-32, one named for no partition and one whose name has no NUL;
\* a header with nothing before it
CarvePieces ==
    LET pkg == PackageOf(CarveRaw, CrcBlock)
        crc == crc32(pkg, ZeroCrc)
        sr  == Len(CarveRaw)
        Hdr(name) == HeaderFor(name, crc, sr, CrcBlock)
        Bad(h) == [h EXCEPT ![Len(h)] = (h[Len(h)] + 1) % 256]
    IN  UNION {
          {[kind |-> "good",
            data |-> ImageOf(p, pkg, Hdr(NameField(p.name)))],
           [kind |-> "bad payload",
            data |-> ImageOf(p, PackageOf(<<9, 9, 9, 9>>, CrcBlock),
                             Hdr(NameField(p.name)))],
           [kind |-> "bad header",
            data |-> ImageOf(p, pkg, Bad(Hdr(NameField(p.name))))],
           [kind |-> "unknown name",
            data |-> ImageOf(p, pkg, Hdr(NameField(<<122>>)))],
           [kind |-> "unterminated name",
            data |-> ImageOf(p, pkg, Hdr(Fill(NameSize, 97)))]}
          : p \in {CarveLayout.partitions[i] : i \in 1..Len(CarveLayout.partitions)}}
        \cup {[kind |-> "no room",
               data |-> Interleave(Hdr(NameField(<<97>>)))]}

\* how much of a last header a dump may hold
CarveCuts == {Len(MAGIC), CrcBlock + 4, 2 * (CrcBlock + 2) + 2}

\* the dumps: one or two pieces, possibly the beginning of a header after them
CarveDumps ==
    LET pieces == {p.data : p \in CarvePieces}
        whole  == pieces \cup {a \o b : a \in pieces, b \in pieces}
        last   == Interleave(HeaderFor(NameField(<<97>>), ZeroCrc, 0, 0))
    IN  whole \cup {w \o Slice(last, 0, n) : w \in pieces \cup {<<>>}, n \in CarveCuts}

CarveInit ==
    /\ \E dump \in CarveDumps :
          an = [pc |-> "called", call |-> "carve", dump |-> dump,
                layout |-> CarveLayout]
    /\ lines = [rts |-> FALSE, dtr |-> FALSE] /\ serial = SerialOpen
    /\ CodecIdle /\ protocol_type = "UNKNOWN"
    /\ CmdIdle /\ SessDefaults /\ FlashIdle
    /\ dev = Chip(0) /\ LinkIdle
    /\ boot_protection_bypass = TRUE /\ serial_timeout = cmnd_timeout
    /\ faults = <<>> /\ ll = [pc |-> "idle"]

CarveUnchanged ==
    UNCHANGED <<codecVars, engVars, sessVars, chipVars, readVars, progVars,
                linkVars, opsVars, lines, serial>>

\* indices = rbl.find_rbl_containers_indices(fs)
CarveFind ==
    /\ an.pc = "called" /\ an.call = "carve"
    /\ \E r \in {find_rbl_containers_indices([data |-> an.dump, pos |-> 0])} :
          an' = [pc |-> "loop", call |-> "carve", dump |-> an.dump,
                 layout |-> an.layout, indices |-> r.ret, i |-> 1,
                 containers |-> <<>>, reports |-> <<>>, err |-> "None"]
    /\ CarveUnchanged

\* one pass of `for idx in indices`: the container is parsed inside
\* try/except ValueError and what became of it is printed
CarveCandidate ==
    /\ an.pc = "loop" /\ an.i <= Len(an.indices)
    /\ \E r \in {from_bytestream(an.dump, an.indices[an.i], an.layout)} :
          an' = IF "err" \in DOMAIN r
                THEN IF r.err = "ValueError"
                     THEN [an EXCEPT !.i = @ + 1,
                              !.reports = Append(@, [idx |-> an.indices[an.i],
                                                    what |-> "FAILED TO PARSE"])]
                     ELSE [an EXCEPT !.pc = "raised", !.err = r.err]
                ELSE [an EXCEPT !.i = @ + 1,
                         !.containers = Append(@, r),
                         !.reports = Append(@, [idx |-> an.indices[an.i],
                                               what |-> IF r.has_payload
                                                        THEN "payload"
                                                        ELSE "INVALID PAYLOAD"])]
    /\ CarveUnchanged

\* return containers
CarveReturn ==
    /\ an.pc = "loop" /\ an.i > Len(an.indices)
    /\ an' = [an EXCEPT !.pc = "returned"]
    /\ CarveUnchanged

CarveNext ==
    \/ CarveFind
    \/ CarveCandidate
    \/ CarveReturn

SpecCarve == CarveInit /\ [][CarveNext]_vars

\* C28: carving a dump never ends in an exception: every candidate found is
\* reported, in order, as failed to parse (and then no container is listed
\* for it), as a container with its payload, or as a container listed with
\* its header and no payload, and the candidates after it are processed.
C28_NeverAborts ==
    (an.pc # "idle" /\ an.call = "carve") =>
        /\ an.pc # "raised"
        /\ an.pc = "returned" =>
              /\ Len(an.reports) = Len(an.indices)
              /\ \A k \in 1..Len(an.reports) : an.reports[k].idx = an.indices[k]
              /\ Len(an.containers) =
                    Cardinality({k \in 1..Len(an.reports) :
                                   an.reports[k].what # "FAILED TO PARSE"})

-----------------------------------------------------------------------------
(* The KV storage: analysis/kvstorage.py (DataBlock, KVStorage) and        *)
(* TuyaStorage.sf_find_index of analysis/storage.py.  What a 128-byte page *)
(* holds is kept as its two readings, the bytes of a DataPage and the      *)
(* fields of an IndexPage; a DataPage holds PageData bytes.                *)

\* 4096 // 128 - 1: the pages of a data block after its header page
BlockPages == 31

\* bytes of a DataPage (128 in DataBlock.DataPage)
PageData == 2

\* 1 << k
RECURSIVE Shl1(_)
Shl1(k) == IF k = 0 THEN 1 ELSE 2 * Shl1(k - 1)

\* the same, the bit numbered by the position in `pages`
is_index_page_from_zero(map_data, Pi) ==
    LET i == Pi
    IN  And(map_data[(i \div 8) + 1], Shl1(i % 8)) # 0

\* DataBlock.is_index_page(ctx), ctx.P.i being the position in `pages`
is_index_page(map_data, Pi) ==
    LET i == Pi + 1
    IN  And(map_data[(i \div 8) + 1], Shl1(i % 8)) # 0

\* IndexPage._id_check for the page at position Pi of the block
id_check(index, block_id, Pi) ==
    index.block_id = block_id /\ index.page_id = Pi + 1

\* DataBlock.unpack: the block's fields and its 31 pages, each read as the
\* switch on is_index_page says; IndexError when a page's map byte is past
\* map_data, a validation error when an index page is not where it says
DataBlock_unpack(raw) ==
    LET beyond == {Pi \in 0..(BlockPages - 1) :
                     ((Pi + 1) \div 8) + 1 > Len(raw.map_data)}
        pages  == [p \in 1..BlockPages |->
                     IF is_index_page(raw.map_data, p - 1)
                     THEN [type |-> "IndexPage", index |-> raw.pages[p].index]
                     ELSE [type |-> "DataPage", data |-> raw.pages[p].data]]
    IN  IF beyond # {} THEN [err |-> "IndexError"]
        ELSE IF \E p \in 1..BlockPages :
                   /\ pages[p].type = "IndexPage"
                   /\ ~id_check(pages[p].index, raw.block_id, p - 1)
        THEN [err |-> "ValidationError"]
        ELSE [block_id |-> raw.block_id, map_size |-> Len(raw.map_data),
              map_data |-> raw.map_data, pages |-> pages]

\* the bit loop of sf_find_index within map byte j, from bit k on: the page
\* ids 8 * j + k an index is made of
RECURSIVE SfBits(_, _, _)
SfBits(v8map, j, k) ==
    IF k = 8 THEN <<>>
    ELSE (IF (v8map[j + 1] \div Shl1(k)) % 2 = 1
          THEN <<((((8 * j) % 256) + k) % 256)>> ELSE <<>>)
         \o SfBits(v8map, j, k + 1)

\* sf_find_index(name) in one block, for a name no index has: the page ids
\* make_sf_index is called with, in order, map byte by map byte
RECURSIVE SfBytes(_, _)
SfBytes(v8map, j) ==
    IF j >= Len(v8map) THEN <<>>
    ELSE (IF v8map[j + 1] # 0 THEN SfBits(v8map, j, 0) ELSE <<>>)
         \o SfBytes(v8map, j + 1)

sf_find_index(v8map) == SfBytes(v8map, 0)

\* the map bytes tried
MapBytes == {0, 1, 5, 128, 254}

MapSizes == {3, 4}

\* the block's raw pages: page p holds bytes that name it and, read as an
\* index page, the index `name` of the block at page p
RawPages(block_id, shift) ==
    [p \in 1..BlockPages |->
       [data  |-> <<block_id, p>>,
        index |-> [block_id |-> block_id, page_id |-> p + shift,
                   length |-> 0, parts_data |-> <<>>, name |-> <<110, p>>]]]

KvBlockInit ==
    /\ \E n \in MapSizes, shift \in {0, 1} :
         \E map_data \in {s \in SeqsUpTo(MapBytes, n) : Len(s) = n} :
          an = [pc |-> "called", call |-> "DataBlock.unpack",
                raw |-> [block_id |-> 1, map_data |-> map_data,
                         pages |-> RawPages(1, shift)]]
    /\ lines = [rts |-> FALSE, dtr |-> FALSE] /\ serial = SerialOpen
    /\ CodecIdle /\ protocol_type = "UNKNOWN"
    /\ CmdIdle /\ SessDefaults /\ FlashIdle
    /\ dev = Chip(0) /\ LinkIdle
    /\ boot_protection_bypass = TRUE /\ serial_timeout = cmnd_timeout
    /\ faults = <<>> /\ ll = [pc |-> "idle"]

\* DataBlock.unpack of the block
UnpackDataBlock ==
    /\ an.pc = "called" /\ an.call = "DataBlock.unpack"
    /\ \E r \in {DataBlock_unpack(an.raw)} :
          an' = [pc |-> "unpacked", call |-> an.call, raw |-> an.raw, ret |-> r]
    /\ CarveUnchanged

\* TuyaStorage.sf_find_index on the same block
SfFindIndex ==
    /\ an.pc = "unpacked"
    /\ an' = [pc |-> "returned", call |-> "sf_find_index", raw |-> an.raw,
              ret |-> an.ret, made |-> sf_find_index(an.raw.map_data)]
    /\ CarveUnchanged

KvBlockNext ==
    \/ UnpackDataBlock
    \/ SfFindIndex

SpecKvBlock == KvBlockInit /\ [][KvBlockNext]_vars

\* bit k of a byte
BitOf(byte, k) == (byte \div Shl1(k)) % 2

\* the block of the call has been unpacked
KvUnpacked ==
    /\ an.pc \in {"unpacked", "returned"}
    /\ an.call \in {"DataBlock.unpack", "sf_find_index"}
    /\ "err" \notin DOMAIN an.ret

\* C29: in a data block that unpacks, page i+1 (i from 0 over the 31 pages
\* after the header page) is an index page exactly when bit (i mod 8) of map
\* byte (i div 8) is 1, and a data page otherwise.
C29_BitOfPosition ==
    KvUnpacked =>
        \A i \in 0..(BlockPages - 1) :
            (an.ret.pages[i + 1].type = "IndexPage")
                <=> (BitOf(an.ret.map_data[(i \div 8) + 1], i % 8) = 1)

\* C29 (amended): page p (1..31) of a data block that unpacks is an index
\* page exactly when bit (p mod 8) of map byte (p div 8) is 1, and a data
\* page otherwise; bit 0 of map byte 0 is the header page's.  sf_find_index
\* makes its indexes of the pages with the same bits.
C29_BitOfPageId ==
    /\ KvUnpacked =>
          \A p \in 1..BlockPages :
              /\ (an.ret.pages[p].type = "IndexPage")
                    <=> (BitOf(an.ret.map_data[(p \div 8) + 1], p % 8) = 1)
              /\ (an.ret.pages[p].type = "DataPage")
                    <=> (BitOf(an.ret.map_data[(p \div 8) + 1], p % 8) = 0)
    /\ (an.pc = "returned" /\ an.call = "sf_find_index") =>
          /\ {an.made[k] : k \in 1..Len(an.made)}
                = {p \in 0..(8 * Len(an.raw.map_data) - 1) :
                     BitOf(an.raw.map_data[(p \div 8) + 1], p % 8) = 1}
          /\ \A k \in 1..(Len(an.made) - 1) : an.made[k] < an.made[k + 1]

\* a block whose map byte 0 is 5 (bits 0 and 2) has been unpacked: page 1 is
\* a data page and page 2 an index page
C29_Witness ==
    /\ KvUnpacked
    /\ an.ret.map_data[1] = 5
    /\ an.ret.pages[1].type = "DataPage"
    /\ an.ret.pages[2].type = "IndexPage"

-----------------------------------------------------------------------------
(* KVStorage.__post_init__ and KVStorage.read_value, and SpecKvRead, which *)
(* reads the value of an index page of a storage of two data blocks        *)

\* KVStorage.__post_init__: self.blocks, each block id with the pages of the
\* first data block of that id (a later one is a swap block), page ids from 1
KvBlocks(data_blocks) ==
    LET ids == {data_blocks[k].block_id : k \in 1..Len(data_blocks)}
        first(id) == CHOOSE k \in 1..Len(data_blocks) :
                        /\ data_blocks[k].block_id = id
                        /\ \A j \in 1..(k - 1) : data_blocks[j].block_id # id
    IN  [id \in ids |-> data_blocks[first(id)].pages]

\* the pages of one part, from page_id on: value grows by each data page; a
\* page that does not exist or is no DataPage raises RuntimeError
RECURSIVE ReadPart(_, _, _, _)
ReadPart(pages, page_id, page_id_end, value) ==
    IF page_id > page_id_end THEN [value |-> value]
    ELSE IF page_id \notin DOMAIN pages THEN [err |-> "RuntimeError"]
    ELSE IF pages[page_id].type # "DataPage" THEN [err |-> "RuntimeError"]
    ELSE ReadPart(pages, page_id + 1, page_id_end, value \o pages[page_id].data)

\* the loop of read_value over index.parts_data from part k on
RECURSIVE ReadParts(_, _, _, _)
ReadParts(blocks, parts_data, k, value) ==
    IF k > Len(parts_data) THEN [value |-> value]
    ELSE LET part == parts_data[k]
         IN  IF part.block_id \notin DOMAIN blocks THEN [err |-> "RuntimeError"]
             ELSE LET r == ReadPart(blocks[part.block_id], part.page_id_start,
                                    part.page_id_end, value)
                  IN  IF "err" \in DOMAIN r THEN r
                      ELSE ReadParts(blocks, parts_data, k + 1, r.value)

\* KVStorage.read_value(index)
read_value(blocks, index) ==
    LET r == ReadParts(blocks, index.parts_data, 1, <<>>)
    IN  IF "err" \in DOMAIN r THEN r
        ELSE [value |-> Slice(r.value, 0, index.length)]

\* the longest declared length
MaxLength == 5

\* the page ranges a part may name
PartRanges == {<<1, 1>>, <<3, 4>>, <<1, 3>>, <<0, 1>>, <<31, 32>>, <<4, 3>>}

\* the parts: of block 1, of block 2, of a block that does not exist
KvParts ==
    {[block_id |-> b, page_id_start |-> r[1], page_id_end |-> r[2]] :
        b \in {1, 2, 3}, r \in PartRanges}

\* a storage of block 1, whose page 2 is the index page, block 2 and a swap
\* block of block 1
KvRaw(index) ==
    <<[block_id |-> 1, map_data |-> <<4, 0, 0, 0>>,
       pages |-> [RawPages(1, 0) EXCEPT ![2].index = index]],
      [block_id |-> 2, map_data |-> <<0, 0, 0, 0>>, pages |-> RawPages(2, 0)],
      [block_id |-> 1, map_data |-> <<0, 0, 0, 0>>, pages |-> RawPages(9, 0)]>>

KvReadInit ==
    /\ \E length \in 0..MaxLength, parts_data \in SeqsUpTo(KvParts, 2) :
          an = [pc |-> "called", call |-> "KVStorage.unpack",
                raw |-> KvRaw([block_id |-> 1, page_id |-> 2, length |-> length,
                               parts_data |-> parts_data, name |-> <<110>>])]
    /\ lines = [rts |-> FALSE, dtr |-> FALSE] /\ serial = SerialOpen
    /\ CodecIdle /\ protocol_type = "UNKNOWN"
    /\ CmdIdle /\ SessDefaults /\ FlashIdle
    /\ dev = Chip(0) /\ LinkIdle
    /\ boot_protection_bypass = TRUE /\ serial_timeout = cmnd_timeout
    /\ faults = <<>> /\ ll = [pc |-> "idle"]

\* KVStorage.unpack: the data blocks are unpacked, __post_init__ sets blocks
UnpackStorage ==
    /\ an.pc = "called" /\ an.call = "KVStorage.unpack"
    /\ \E blocks \in {KvBlocks([k \in 1..Len(an.raw) |->
                                  DataBlock_unpack(an.raw[k])])} :
          an' = [pc |-> "unpacked", call |-> "read_value", blocks |-> blocks,
                 index |-> blocks[1][2].index]
    /\ CarveUnchanged

\* storage.read_value(index) for the index page of the storage
ReadValue ==
    /\ an.pc = "unpacked" /\ an.call = "read_value"
    /\ \E r \in {read_value(an.blocks, an.index)} :
          an' = [pc |-> "returned", call |-> "read_value", blocks |-> an.blocks,
                 index |-> an.index, ret |-> r]
    /\ CarveUnchanged

KvReadNext ==
    \/ UnpackStorage
    \/ ReadValue

SpecKvRead == KvReadInit /\ [][KvReadNext]_vars

\* the pages a part names, in order, as <<block id, page id>>
PartPages(part) ==
    [k \in 1..(IF part.page_id_end < part.page_id_start THEN 0
               ELSE part.page_id_end - part.page_id_start + 1) |->
       <<part.block_id, part.page_id_start + k - 1>>]

\* the pages an index names through its parts, in order
Referenced(index) ==
    Flatten([k \in 1..Len(index.parts_data) |-> PartPages(index.parts_data[k])])

\* a page named is a data page of a block of the storage
IsDataPage(blocks, ref) ==
    /\ ref[1] \in DOMAIN blocks
    /\ ref[2] \in DOMAIN blocks[ref[1]]
    /\ blocks[ref[1]][ref[2]].type = "DataPage"

\* C30: read_value(index) either fails or returns exactly index.length
\* bytes, the first index.length bytes of the data pages its parts name,
\* concatenated in order; it fails when a page named is of a block that does
\* not exist, does not exist, is an index page, or when the pages named hold
\* fewer than index.length bytes.
C30_ReadValue ==
    (an.pc = "returned" /\ an.call = "read_value") =>
        LET refs  == Referenced(an.index)
            sound == \A k \in 1..Len(refs) : IsDataPage(an.blocks, refs[k])
            bytes == Flatten([k \in 1..Len(refs) |->
                                an.blocks[refs[k][1]][refs[k][2]].data])
        IN  IF ~sound THEN "err" \in DOMAIN an.ret
            ELSE IF Len(bytes) < an.index.length THEN "err" \in DOMAIN an.ret
            ELSE /\ "err" \notin DOMAIN an.ret
                 /\ Len(an.ret.value) = an.index.length
                 /\ an.ret.value = SubSeq(bytes, 1, an.index.length)
-----------------------------------------------------------------------------
(* The code cipher: crypto/code.py.  A 32-bit quantity is kept as its two
   16-bit halves, [hi, lo]; hi grows past 16 bits where Python's integer
   grows past 32. *)

Word(hi, lo) == [hi |-> hi, lo |-> lo]

\* an integer below 2^31 as a word, and back
ToWord(x) == Word(x \div 65536, x % 65536)

XorW(a, b) == Word(Xor(a.hi, b.hi), Xor(a.lo, b.lo))

AndW(a, b) == Word(And(a.hi, b.hi), And(a.lo, b.lo))

\* (x >> k) & 1
Bit(x, k) == (x \div (2 ^ k)) % 2

\* crypto/util.py
uint8(x) == x % 256

uint16(x) == x % 65536

\* x & 0xFFFFFFFF of a word
uint32(w) == Word(w.hi % 65536, w.lo)

\* int.from_bytes(b, "little") of four bytes
WordOfBytes(b) == Word(b[3] + (256 * b[4]), b[1] + (256 * b[2]))

\* w.to_bytes(4, "little"): OverflowError when w needs more than 32 bits
to_bytes(w) ==
    IF w.hi >= 65536 THEN [err |-> "OverflowError"]
    ELSE [bytes |-> <<w.lo % 256, w.lo \div 256, w.hi % 256, w.hi \div 256>>]

\* _generate_uint_pn15(index_mask, flag)
generate_uint_pn15(index_mask, flag) ==
    IF flag THEN 0
    ELSE LET val_rshift_5        == uint16(index_mask \div 32)
             val_rshift_5_nibble == And(val_rshift_5, 15)
             xor_lhs == uint16(uint16(index_mask \div 128)
                               + uint16(index_mask * 512))
             xor_rhs == uint16(val_rshift_5 * 4096)
                        + uint16(val_rshift_5_nibble * 256)
                        + uint8(val_rshift_5 * 16)
                        + val_rshift_5_nibble
         IN  uint16(Xor(xor_lhs, And(xor_rhs, 25457)))

\* _generate_uint_pn16(index_mask, flag): a value of up to 17 bits
generate_uint_pn16(index_mask, flag) ==
    IF flag THEN 0
    ELSE LET part1 == Bit(index_mask, 13) + (Bit(index_mask, 9) * 2)
                      + (Bit(index_mask, 5) * 4) + (Bit(index_mask, 1) * 8)
             xor_lhs == ((index_mask % 1024) * 128)
                        + ((index_mask \div 1024) % 128)
             xor_rhs == uint32(ToWord((Bit(index_mask, 4) * 65536)
                                      + (part1 * 4096) + (part1 * 273)))
             masked  == AndW(xor_rhs, Word(1, 13913))
             ret     == uint32(XorW(ToWord(xor_lhs), masked))
         IN  (ret.hi * 65536) + ret.lo

\* _generate_uint_pn32(index_mask, flag): index_mask >> 15 | index_mask << 17
\* cut to 32 bits is the word rotated right by 15
generate_uint_pn32(index_mask, flag) ==
    IF flag THEN Word(0, 0)
    ELSE LET xor_lhs == uint32(Word((index_mask.hi \div 32768)
                                      + ((index_mask.lo % 32768) * 2),
                                    (index_mask.lo \div 32768)
                                      + ((index_mask.hi % 32768) * 2)))
             xor_rhs_start == (index_mask.lo \div 4) % 16
             xor_rhs == Word((xor_rhs_start * 4096) + (xor_rhs_start * 256)
                               + (xor_rhs_start * 16) + xor_rhs_start,
                             xor_rhs_start * 4369)
         IN  XorW(xor_lhs, AndW(xor_rhs, Word(58649, 42225)))

\* uint32(index >> PN32_SHIFTS[k][0] | index << PN32_SHIFTS[k][1]) of an index
\* below 2^32: its four bytes rotated
pn32_word_of(index, k) ==
    LET b == LE(index, 4)
        r == [j \in 1..4 |-> b[((j + k - 1) % 4) + 1]]
    IN  WordOfBytes(r)

\* the mask as the code adds it up, pn15_val * 0x10000 + pn16_val, neither
\* cut to 32 bits
word_encryption_mask(pn15_val, pn16_val) ==
    Word(pn15_val + (pn16_val \div 65536), pn16_val % 65536)

\* BekenCodeCipher._encrypt_word(index, word) under the coefficients coef
encrypt_word(coef, index, word) ==
    LET coef3 == coef[4]
        coef3_highbyte_cond == (coef3.hi \div 256) \in {255, 0}
        coef3_1_bit == coef3_highbyte_cond \/ Bit(coef3.lo, 0) # 0
        coef3_2_bit == coef3_highbyte_cond \/ Bit(coef3.lo, 1) # 0
        coef3_4_bit == coef3_highbyte_cond \/ Bit(coef3.lo, 2) # 0
        coef3_8_bit == coef3_highbyte_cond \/ Bit(coef3.lo, 3) # 0
        coef3_5_rsh  == (coef3.lo \div 32) % 4
        coef3_8_rsh  == (coef3.lo \div 256) % 4
        coef3_11_rsh == (coef3.lo \div 2048) % 4
        index_mask_16_rsh == uint16(index \div 65536)
        index_mask_seq    == uint16(index \div 256)
        \* uint16(index << 8)
        index_lsh_8 == uint8(index) * 256
        pn15_word ==
            CASE coef3_5_rsh = 0 ->
                   Xor(uint8(index_mask_16_rsh)
                         + uint16((index \div 16777216) * 256),
                       uint16(index))
              [] coef3_5_rsh = 1 ->
                   Xor(uint8(index_mask_16_rsh)
                         + uint16((index \div 16777216) * 256),
                       uint8(index_mask_seq) + index_lsh_8)
              [] coef3_5_rsh = 2 ->
                   Xor((index_mask_16_rsh \div 256)
                         + uint16((index \div 65536) * 256),
                       uint16(index))
              [] OTHER ->
                   Xor((index_mask_16_rsh \div 256)
                         + uint16((index \div 65536) * 256),
                       uint8(index_mask_seq) + index_lsh_8)
        pn16_word == (index \div (2 ^ coef3_8_rsh)) % 131072
        pn32_word == pn32_word_of(index, coef3_11_rsh)
        pn15_index_mask == uint16(Xor(coef[2].hi, pn15_word))
        pn16_index_mask ==
            Xor(uint8(coef[2].lo) + (uint8(coef[2].lo \div 256) * 512)
                  + (uint8(Bit(coef3.lo, 4)) * 256),
                pn16_word)
        pn32_index_mask == XorW(pn32_word, coef[1])
        pn15_val == generate_uint_pn15(pn15_index_mask, coef3_1_bit)
        pn16_val == generate_uint_pn16(pn16_index_mask, coef3_2_bit)
        pn32_val == generate_uint_pn32(pn32_index_mask, coef3_4_bit)
        final_val == IF coef3_8_bit THEN Word(0, 0) ELSE coef[3]
    IN  XorW(XorW(XorW(word_encryption_mask(pn15_val, pn16_val), pn32_val),
                  final_val),
             word)

BLOCK_LENGTH_BYTES == 32

\* the words of a block from the i-th on (i counts bytes)
RECURSIVE EncryptWords(_, _, _, _, _)
EncryptWords(coef, block, block_start_offset, i, encrypted) ==
    IF i >= Len(block) \/ encrypted = <<-1>> THEN [bytes |-> encrypted]
    ELSE LET w == to_bytes(encrypt_word(coef, block_start_offset + i,
                                        WordOfBytes(Slice(block, i, i + 4))))
         IN  IF "err" \in DOMAIN w THEN w
             ELSE EncryptWords(coef, block, block_start_offset, i + 4,
                               encrypted \o w.bytes)

\* BekenCodeCipher._encrypt_block(block, block_start_offset)
encrypt_block(coef, block, block_start_offset) ==
    IF Len(block) # BLOCK_LENGTH_BYTES THEN [err |-> "ValueError"]
    ELSE EncryptWords(coef, block, block_start_offset, 0, <<>>)

\* the blocks of the data from the i-th byte on
RECURSIVE EncryptBlocks(_, _, _, _, _)
EncryptBlocks(coef, data, stream_start_offset, i, encrypted) ==
    IF i >= Len(data) \/ encrypted = <<-1>> THEN [bytes |-> encrypted]
    ELSE LET b == encrypt_block(coef, Slice(data, i, i + BLOCK_LENGTH_BYTES),
                                i + stream_start_offset)
         IN  IF "err" \in DOMAIN b THEN b
             ELSE EncryptBlocks(coef, data, stream_start_offset,
                                i + BLOCK_LENGTH_BYTES, encrypted \o b.bytes)

\* BekenCodeCipher.encrypt(data, stream_start_offset)
encrypt(coef, data, stream_start_offset) ==
    IF Len(data) % BLOCK_LENGTH_BYTES # 0 THEN [err |-> "ValueError"]
    ELSE EncryptBlocks(coef, data, stream_start_offset, 0, <<>>)

\* BekenCodeCipher.decrypt(data, stream_start_offset)
decrypt(coef, data, stream_start_offset) ==
    encrypt(coef, data, stream_start_offset)

\* the longest data, in blocks
MaxBlocks == 2

\* coefficients as words: the key of the app partition, 0x510FB093,
\* 0xA3CBEADC, 0x5993A17E, 0xC7ADEB03; other values of coef1's high half; other
\* values of coef3's selector and zero-out bits and of its high byte
CipherCoefficients ==
    {<<Word(20751, 45203), Word(c1, 60124), Word(22931, 41342), Word(c3h, c3l)>> :
        c1 \in {41931, 26466, 25454},
        c3h \in {51117, 173, 65453},
        c3l \in {60163, 60160, 60192, 62284}}

\* stream offsets in [0, 2^24)
CipherOffsets == {0, 65536, 1193044, 16777184}

\* data of up to MaxBlocks blocks: zeros, 0xFF, a ramp
CipherData ==
    UNION {{Fill(n * BLOCK_LENGTH_BYTES, 0), Fill(n * BLOCK_LENGTH_BYTES, 255),
            [k \in 1..(n * BLOCK_LENGTH_BYTES) |-> (k * 7) % 256]} :
              n \in 0..MaxBlocks}

CipherInit ==
    /\ \E coef \in CipherCoefficients, off \in CipherOffsets, data \in CipherData :
          an = [pc |-> "called", call |-> "encrypt", coef |-> coef,
                off |-> off, data |-> data]
    /\ lines = [rts |-> FALSE, dtr |-> FALSE] /\ serial = SerialOpen
    /\ CodecIdle /\ protocol_type = "UNKNOWN"
    /\ CmdIdle /\ SessDefaults /\ FlashIdle
    /\ dev = Chip(0) /\ LinkIdle
    /\ boot_protection_bypass = TRUE /\ serial_timeout = cmnd_timeout
    /\ faults = <<>> /\ ll = [pc |-> "idle"]

\* code_cipher.encrypt(data, off)
CipherEncrypt ==
    /\ an.pc = "called" /\ an.call = "encrypt"
    /\ \E r \in {encrypt(an.coef, an.data, an.off)} :
          an' = [pc |-> "encrypted", call |-> "decrypt", coef |-> an.coef,
                 off |-> an.off, data |-> an.data, enc |-> r]
    /\ CarveUnchanged

\* code_cipher.decrypt(encrypted, off)
CipherDecrypt ==
    /\ an.pc = "encrypted" /\ an.call = "decrypt"
    /\ "err" \notin DOMAIN an.enc
    /\ \E r \in {decrypt(an.coef, an.enc.bytes, an.off)} :
          an' = [pc |-> "decrypted", call |-> "decrypt", coef |-> an.coef,
                 off |-> an.off, data |-> an.data, enc |-> an.enc, dec |-> r]
    /\ CarveUnchanged

CipherNext ==
    \/ CipherEncrypt
    \/ CipherDecrypt

SpecCipher == CipherInit /\ [][CipherNext]_vars

\* C31: for any four 32-bit coefficients, any stream offset in [0, 2^24) and
\* any data of a multiple of 32 bytes, encrypt succeeds with an output as long
\* as the data, and decrypt of the output at the same offset is the data.
C31_CipherRoundTrip ==
    /\ (an.pc \in {"encrypted", "decrypted"}) =>
          /\ "err" \notin DOMAIN an.enc
          /\ Len(an.enc.bytes) = Len(an.data)
    /\ (an.pc = "decrypted") =>
          /\ "err" \notin DOMAIN an.dec
          /\ an.dec.bytes = an.data
-----------------------------------------------------------------------------
(* close(): serial/linking.py 42-45 *)

\* the same without the guard: the port closed and dropped at every call
close_unguarded(s) ==
    IF ~s.held THEN [serial |-> s, closed_port |-> 0, err |-> "AttributeError"]
    ELSE [serial |-> [held |-> FALSE, closed |-> TRUE], closed_port |-> 1,
          err |-> ""]

\* BK7231SerialLinking.close(): the session's serial after the call, how many
\* times it has called the port's close(), the error raised
close(s) ==
    IF s.held /\ ~s.closed
    THEN [serial |-> [held |-> FALSE, closed |-> TRUE], closed_port |-> 1,
          err |-> ""]
    ELSE [serial |-> s, closed_port |-> 0, err |-> ""]

\* the calls of close() made on a session
MaxCloses == 3

\* a session with the defaults of data.py or what a connect has set, its port
\* open
CloseInit ==
    /\ serial = SerialOpen
    /\ lines \in [rts : BOOLEAN, dtr : BOOLEAN]
    /\ an = [pc |-> "idle"]
    /\ protocol_type \in DOMAIN ProtocolType
    /\ serial_baudrate \in {LinkBaud, 921600}
    /\ ll = [pc |-> "close", calls |-> 0, port_closes |-> 0, err |-> ""]
    /\ boot_protection_bypass \in BOOLEAN /\ serial_timeout = cmnd_timeout
    /\ faults = <<>>
    /\ ident = IdentDefaults /\ wire = <<>> /\ conn = [pc |-> "idle"]
    /\ dev = Chip(0)
    /\ packet = Pkt("BkLinkCheckCmnd", <<>>, <<>>) /\ encoded = <<>>
    /\ CmdIdle /\ SessDefaults /\ FlashIdle

CloseUnchanged ==
    UNCHANGED <<codecVars, engVars, sessVars, chipVars, readVars, progVars,
                linkVars, boot_protection_bypass, serial_timeout, faults,
                lines, an>>

\* session.close()
Close ==
    /\ ll.pc = "close" /\ ll.calls < MaxCloses /\ ll.err = ""
    /\ \E r \in {close(serial)} :
          /\ serial' = r.serial
          /\ ll' = [ll EXCEPT !.calls = @ + 1,
                              !.port_closes = @ + r.closed_port,
                              !.err = r.err]
    /\ CloseUnchanged

\* session.serial.close(): the port, a public attribute, closed by the
\* program around the session
PortClose ==
    /\ ll.pc = "close" /\ serial.held /\ ~serial.closed
    /\ serial' = [serial EXCEPT !.closed = TRUE]
    /\ UNCHANGED ll
    /\ CloseUnchanged

CloseNext ==
    \/ Close
    \/ PortClose

SpecClose == CloseInit /\ [][CloseNext]_vars

\* the session holds an open channel
HoldsOpen == serial.held /\ ~serial.closed

\* C32: close() is idempotent: no call of it raises; the first call on an open
\* channel closes it; a further call changes nothing; after a close() the
\* session holds no open channel, and it has closed the port at most once.
C32_CloseIdempotent ==
    /\ [](ll.pc = "close" => /\ ll.err = ""
                             /\ ll.port_closes <= 1
                             /\ (ll.calls >= 1 => ~HoldsOpen))
    /\ [][(ll.pc = "close" /\ ll'.calls = ll.calls + 1) =>
            /\ (ll.calls = 0 /\ HoldsOpen) =>
                  (serial'.closed /\ ~serial'.held /\ ll'.port_closes = 1)
            /\ ll.calls >= 1 =>
                  (serial' = serial /\ ll'.port_closes = ll.port_closes)]_vars

\* close() called three times on the session that held the open port: the
\* port closed once and dropped
C32_Witness ==
    /\ ll.pc = "close" /\ ll.calls = MaxCloses /\ ll.port_closes = 1
    /\ ~serial.held /\ serial.closed
-----------------------------------------------------------------------------
(* program_flash: what is erased before it is written (SpecProgram) *)

IsWrite(p) == p.op \in {"FlashWrite", "FlashWrite4K"}

\* two writes share a byte
Overlap(p, q) == p.a < q.a + Len(q.b) /\ q.a < p.a + Len(p.b)

\* the chip holds 0xFF at the n bytes from a
BlankAt(mem, a, n) ==
    \A k \in 0..(n - 1) : mem[((a + k) % Len(mem)) + 1] = 255

\* packet j of lg prepares the sector of the write lg[i]: it is one of
\* `preparing` for that sector, and no write between the two shares a byte
\* with lg[i]
Prepares(lg, j, i, preparing) ==
    /\ j < i
    /\ lg[j] \in preparing
    /\ \A k \in (j + 1)..(i - 1) : IsWrite(lg[k]) => ~Overlap(lg[k], lg[i])

\* the erase command of the sector at a
SectorErase(a) == Sent("FlashErase", a, SECTOR_4K)

\* the FlashWrite packets, which are those of the unaligned head
HeadWrites == SelectSeq(log, LAMBDA p : p.op = "FlashWrite")

\* the head's writes are of 1 to 256 bytes, start at `start`, follow one
\* another and stay inside the sector of `start`
HeadWritesInside ==
    LET w == HeadWrites
    IN  /\ w # <<>> => SectorOffset(pg.start) # 0 /\ w[1].a = pg.start
        /\ \A k \in 1..Len(w) :
              /\ Len(w[k].b) \in 1..WriteBlock
              /\ w[k].a + Len(w[k].b) <= SectorBase(pg.start) + SectorSize
              /\ k > 1 => w[k].a = w[k - 1].a + Len(w[k - 1].b)

\* once the head is over its writes reach the end of the sector or the end
\* of the stream, whichever is first
HeadWritesStop ==
    (pg.pc \in {"body", "returned"} /\ ~pg.dry_run /\ SectorOffset(pg.start) # 0) =>
        SumSeq([k \in 1..Len(HeadWrites) |-> Len(HeadWrites[k].b)])
            = Min(SectorBase(pg.start) + SectorSize, ProgramEnd) - pg.start

WritesPrepared ==
    \A i \in WritesIn(log) :
        \E j \in 1..(i - 1) :
            Prepares(log, j, i, {SectorErase(SectorBase(log[i].a)),
                                 SectorCrcCmd(SectorBase(log[i].a))})

\* one resumption of the generator: a write it sends goes to a sector it
\* has sent an erase command for, with no write to the same bytes since, or
\* to bytes the chip held as 0xFF when the resumption began
WritesToErased ==
    \A i \in (Len(log) + 1)..Len(log') :
        IsWrite(log'[i]) =>
            \/ \E j \in 1..(i - 1) :
                  Prepares(log', j, i, {SectorErase(SectorBase(log'[i].a))})
            \/ BlankAt(flash, log'[i].a, Len(log'[i].b))

-----------------------------------------------------------------------------
(* flash_erase_checked: what latches it and what it saves (SpecFlashOps) *)

\* a flash_erase_block call is over
EraseCalled == ll.pc \in {"returned", "raised"} /\ ll.call = "flash_erase_block"

\* the call was one that verifies: a 4K erase, no dry run, on a session whose
\* flash_erase_checked was unset
EraseVerifies ==
    ~ll.flash_erase_checked /\ ll.args[2] = SECTOR_4K /\ ~ll.args[3]

\* C34: flash_erase_checked, once set, stays set through every call.  A
\* flash_erase_block call reads CRCs only when it is a 4K erase on a session
\* whose flash_erase_checked is unset, and then it begins with the CRC read;
\* on a session where it is set, and for every 64K erase, a call sends its
\* erase command and nothing else (nothing at all in a dry run) and leaves the
\* flag as it was; a 64K erase never sets it.
C34_EraseChecked ==
    /\ [][flash_erase_checked => flash_erase_checked']_vars
    /\ [](EraseCalled =>
            /\ ~EraseVerifies =>
                  /\ \A i \in 1..Len(log) :
                        log[i] = Sent("FlashErase", ll.args[1], ll.args[2])
                  /\ ~ll.args[3] => log # <<>>
                  /\ ll.args[3] => log = <<>>
                  /\ flash_erase_checked = ll.flash_erase_checked
            /\ EraseVerifies =>
                  /\ log # <<>> /\ log[1] = SectorCrcCmd(ll.args[1])
            /\ SentOps("CheckCrc") # {} => EraseVerifies
            /\ ll.args[2] = BLOCK_64K =>
                  flash_erase_checked = ll.flash_erase_checked)

\* a 64K erase on a session whose flag is unset: the erase command alone, the
\* flag still unset
C34_Witness ==
    /\ EraseCalled /\ ll.pc = "returned"
    /\ ll.args[2] = BLOCK_64K /\ ~ll.args[3] /\ ~ll.flash_erase_checked
    /\ log = <<Sent("FlashErase", ll.args[1], BLOCK_64K)>>
    /\ ~flash_erase_checked
-----------------------------------------------------------------------------
(* flash_read_4k: what it returns and how often it asks (SpecFlashOps) *)

\* a flash_read_4k call is over
Read4KCalled == ll.pc \in {"returned", "raised"} /\ ll.call = "flash_read_4k"

\* the chip's CRC-32 for the CheckCRC packet p, from the addresses of its
\* frame
ChipCrcFor(p) ==
    LET addrs == FrameAddrs(SessionMachine, "CheckCrc", p.a, p.b)
    IN  Not32(ChipCheckCrc(SessionMachine, addrs[1], addrs[2]))

\* C35: flash_read_4k returns only a payload of 4096 bytes and, with
\* crc_check, only one whose CRC-32 is the chip's answer to the CheckCRC of
\* that sector sent right after the last FlashRead4K; it sends at most
\* read_retries + 1 FlashRead4K commands, every one for the sector asked, and
\* raises only when it has sent that many, the error being that of the last
\* attempt.
C35_Read4K ==
    Read4KCalled =>
        LET start     == ll.args[1]
            crc_check == ll.args[2]
            reads     == SentOps("FlashRead4K")
            last      == CHOOSE i \in reads : \A j \in reads : j <= i
        IN  /\ reads # {}
            /\ Cardinality(reads) <= read_retries + 1
            /\ \A i \in reads : log[i] = Sent("FlashRead4K", start, 0)
            /\ ~crc_check => SentOps("CheckCrc") = {}
            /\ ll.pc = "returned" =>
                  /\ Len(ll.ret) = SectorSize
                  /\ crc_check =>
                        /\ last < Len(log)
                        /\ log[last + 1] = SectorCrcCmd(start)
                        /\ crc32(ll.ret, ZeroCrc) = ChipCrcFor(log[last + 1])
            /\ ll.pc = "raised" =>
                  /\ IsValueError(ll)
                  /\ Cardinality(reads) = read_retries + 1

\* a read with crc_check that returned at its second attempt
C35_Witness ==
    /\ Read4KCalled /\ ll.pc = "returned" /\ ll.args[2]
    /\ Cardinality(SentOps("FlashRead4K")) = 2
    /\ Len(ll.ret) = SectorSize
-----------------------------------------------------------------------------
(* SpecSession: command() called again after a ValueError, as the retry loops
   of cmd_ll_flash.py 101-119 and of wait_for_link do, on a channel where a
   reply may arrive after the call it answers has timed out. *)

\* the command() calls of a session
MaxCommands == 2

SessionInit ==
    /\ protocol_type \in DOMAIN ProtocolType
    /\ cmd \in CmdPackets
    /\ support_optional \in BOOLEAN
    /\ rx = <<>> /\ rx0 = <<>> /\ tx = <<>>
    /\ cpc = "start" /\ size = 0 /\ response = <<>> /\ result = "none"
    /\ CodecIdle /\ SessDefaults /\ FlashIdle
    /\ dev = Chip(0) /\ LinkIdle
    /\ boot_protection_bypass = TRUE /\ serial_timeout = cmnd_timeout
    /\ faults = <<>> /\ AuxIdle
    /\ ll = [pc |-> "session", calls |-> 1, late |-> <<>>, stale |-> 0,
             fresh |-> FALSE]

\* the channel while command() waits: the chip answers every command once,
\* before the read times out or after it; a reply that was late for an
\* earlier call has arrived by now, ahead of the reply to this one.  command()
\* does not drain the channel before it writes, so what an earlier call left
\* unread is still pending.  `stale` counts the pending bytes that answer
\* earlier commands.
SessionDeliver ==
    /\ cpc = "await" /\ ll.pc = "session"
    /\ \E on_time \in BOOLEAN :
          /\ rx' = rx \o ll.late \o (IF on_time THEN GoodFrame(cmd) ELSE <<>>)
          /\ ll' = [ll EXCEPT !.late = IF on_time THEN <<>> ELSE GoodFrame(cmd),
                              !.stale = Len(rx \o ll.late),
                              !.fresh = on_time]
    /\ rx0' = rx'
    /\ cpc' = "preamble"
    /\ UNCHANGED <<protocol_type, cmd, support_optional, tx, size, response,
                   result, codecVars, bootloader_type, flash_size,
                   flash_erase_checked, flash_id, chipVars, readVars, progVars,
                   linkVars, boot_protection_bypass, serial_timeout, faults,
                   auxVars>>

\* `except ValueError`: the same command sent again
SessionRetry ==
    /\ cpc = "done" /\ ll.pc = "session" /\ ll.calls < MaxCommands
    /\ result \in {"ValueError: No response received",
                   "ValueError: Invalid response data payload",
                   "ValueError: Partial response received"}
    /\ cpc' = "start" /\ result' = "none" /\ size' = 0 /\ response' = <<>>
    /\ ll' = [ll EXCEPT !.calls = @ + 1, !.fresh = FALSE]
    /\ UNCHANGED <<protocol_type, cmd, support_optional, rx, rx0, tx,
                   codecVars, bootloader_type, flash_size,
                   flash_erase_checked, flash_id, chipVars, readVars, progVars,
                   linkVars, boot_protection_bypass, serial_timeout, faults,
                   auxVars>>

SessionNext ==
    \/ CommandSend
    \/ SessionDeliver
    \/ ReadPreamble
    \/ ReadSize
    \/ ReadData
    \/ ReadLong
    \/ ReadCode
    \/ ReadPayload
    \/ SessionRetry

SpecSession == SessionInit /\ [][SessionNext]_vars

\* the bytes command() has taken from those pending when it began to read
Consumed == Len(rx0) - Len(rx)

\* C36: at most one command is outstanding: a response that command()
\* accepts is the chip's reply to the command it has just written, never the
\* late reply to an earlier command that timed out and was sent again.
C36_NoStaleReply ==
    (cpc = "done" /\ Succeeded /\ ExpectsResponse(cmd)) =>
        /\ ll.fresh
        /\ Consumed > ll.stale

\* ---------------------------------------------------------------------
\* Termination of command() (protocol.py 198-224)
\* ---------------------------------------------------------------------

\* command() is sequential code and every serial read returns (on data or
\* on the port's timeout), so a step that is possible is eventually taken
SpecCommandLive == CommandInit /\ [][CommandNext]_vars /\ WF_vars(CommandNext)

InLoop == cpc \in {"preamble", "size", "data", "long", "code", "payload"}

\* one pass of the loop starts with the preamble scan: it raises the
\* no-response error or takes the two preamble bytes (at least) off the line
PassConsumes ==
    cpc = "preamble" =>
        \/ cpc' = "done" /\ result' = "ValueError: No response received"
        \/ cpc' = "size" /\ Len(rx') <= Len(rx) - 2

\* no read puts bytes back, and the line delivered is finite
NoRefill == InLoop => Len(rx') <= Len(rx)

\* C37: for any finite sequence of bytes delivered by the channel command()
\* terminates: every pass of its resynchronisation loop consumes at least
\* one byte or ends with the no-response error
C37_CommandTerminates ==
    /\ <>(cpc = "done")
    /\ [][PassConsumes /\ NoRefill]_vars

\* a frame with another code was skipped and the good frame behind it taken
C37_Witness ==
    /\ cpc = "done" /\ Succeeded /\ ExpectsResponse(cmd)
    /\ Len(rx0) > Len(GoodFrame(cmd)) + MaxNoise

\* ---------------------------------------------------------------------
\* flash_detect_size and boot_protection_bypass (cmd_ll_flash.py 76-94)
\* ---------------------------------------------------------------------

\* a session with or without a known flash size, with the bypass on or off,
\* in front of chips of several sizes that answer or fail to
DetectInit ==
    /\ \E s \in OpsSessions : protocol_type = s[1] /\ bootloader_type = s[2]
    /\ flash_size \in {0, FlashBytes}
    /\ boot_protection_bypass \in BOOLEAN
    /\ flash_erase_checked = FALSE
    /\ flash_id = <<>>
    /\ flash \in LinkImages
    /\ chip_id = <<200, 64, 21>> /\ chip_sr = 636
    /\ log = <<>>
    /\ dev = ChipFor(protocol_type) /\ LinkIdle
    /\ serial_timeout = cmnd_timeout
    /\ faults \in FaultScripts
    /\ ll = [pc |-> "idle"] /\ AuxIdle
    /\ rd = [pc |-> "idle"] /\ chunks = <<>>
    /\ pg = [pc |-> "idle"] /\ yields = <<>>
    /\ CodecIdle /\ CmdIdle

\* flash_detect_size(); the frame keeps the flag the session had before
FlashDetectSize ==
    /\ ll.pc = "idle"
    /\ \E m \in {flash_detect_size(SessionMachine)} :
          /\ ll' = [pc |-> IF m.err = "" THEN "returned" ELSE "raised",
                    call |-> "flash_detect_size", err |-> m.err, ret |-> m.ret,
                    boot_protection_bypass |-> boot_protection_bypass]
          /\ flash' = m.flash
          /\ chip_sr' = m.chip_sr
          /\ log' = m.log
          /\ wire' = m.wire
          /\ flash_erase_checked' = m.flash_erase_checked
          /\ flash_id' = m.flash_id
          /\ serial_timeout' = m.timeout
          /\ boot_protection_bypass' = m.boot_protection_bypass
          /\ faults' = m.faults
    /\ UNCHANGED <<protocol_type, bootloader_type, flash_size, chip_id, dev,
                   ident, serial_baudrate, conn, readVars, progVars, codecVars,
                   engVars, auxVars>>

DetectNext == FlashDetectSize

SpecDetect == DetectInit /\ [][DetectNext]_vars

DetectOver == ll.pc \in {"returned", "raised"}

\* every read of the detection went out with the address it was given: the
\* bypass was off when it was placed in the command
DetectReadsUntranslated ==
    /\ Len(WrittenFrames) = Len(log)
    /\ \A i \in 1..Len(log) :
          /\ log[i].op = "FlashRead4K"
          /\ WrittenFrames[i].addrs = <<log[i].a>>

\* C38: boot_protection_bypass is false for every read issued by
\* flash_detect_size, and when flash_detect_size returns or fails the flag
\* has the value it had before the call
C38_BypassRestored ==
    DetectOver =>
        /\ DetectReadsUntranslated
        /\ boot_protection_bypass = ll.boot_protection_bypass

\* what the code does: the reads go out untranslated and the flag is set,
\* whatever it was
DetectLeavesBypassSet ==
    DetectOver =>
        /\ DetectReadsUntranslated
        /\ boot_protection_bypass = TRUE

\* ---------------------------------------------------------------------
\* The two address translations for a 2 MiB part
\* (utils.py 4-7, cmd_chip.py 103-108, cmd_ll_chip.py 18-21)
\* ---------------------------------------------------------------------

\* 0x200000: the size of the part and the bit utils.fix_addr sets
FlashSize2M == 2097152

\* addr | 0x200000
OrBit21(addr) ==
    IF (addr \div FlashSize2M) % 2 = 1 THEN addr ELSE addr + FlashSize2M

\* utils.fix_addr(addr): addr &= 0x1FFFFF; addr |= 0x200000
utils_fix_addr(addr) == OrBit21(addr % FlashSize2M)

\* the end of a range as cmd_chip.read_flash_range_crc sends it, without the
\* repair of line 107
legacy_crc_end_no_repair(end) == utils_fix_addr(end)

\* the end of a range as cmd_chip.read_flash_range_crc sends it:
\* end = fix_addr(end); if end == 0x200000: end += 0x200000
legacy_crc_end(end) ==
    LET e == utils_fix_addr(end)
    IN  IF e = FlashSize2M THEN e + FlashSize2M ELSE e

\* a session on a 2 MiB part with the bypass on
Session2M == [flash_size |-> FlashSize2M, boot_protection_bypass |-> TRUE]

\* the addresses placed in commands: starts below the size of the part and
\* exclusive ends up to it, at and around sector and block boundaries
TranslateAddrs ==
    {a \in {k * 65536 + d : k \in 0..32, d \in {0, 1, 4095, 4096, 65535, 69632}} :
        a <= FlashSize2M}

TranslateInit ==
    /\ \E addr \in TranslateAddrs, role \in {"start", "end"} :
          /\ role = "start" => addr < FlashSize2M
          /\ role = "end" => addr > 0
          /\ an = [pc |-> "called", call |-> "fix_addr", addr |-> addr,
                   role |-> role]
    /\ lines = [rts |-> FALSE, dtr |-> FALSE] /\ serial = SerialOpen
    /\ CodecIdle /\ protocol_type = "UNKNOWN"
    /\ CmdIdle /\ SessDefaults /\ FlashIdle
    /\ dev = Chip(0) /\ LinkIdle
    /\ boot_protection_bypass = TRUE /\ serial_timeout = cmnd_timeout
    /\ faults = <<>> /\ ll = [pc |-> "idle"]

\* self.fix_addr(addr) of the session
TranslateAdd ==
    /\ an.pc = "called" /\ an.call = "fix_addr"
    /\ an' = [pc |-> "added", call |-> "fix_addr", addr |-> an.addr,
              role |-> an.role, added |-> fix_addr(Session2M, an.addr)]
    /\ CarveUnchanged

\* utils.fix_addr(addr), and the end as cmd_chip.read_flash_range_crc sends it
TranslateMask ==
    /\ an.pc = "added" /\ an.call = "fix_addr"
    /\ an' = [pc |-> "masked", call |-> "fix_addr", addr |-> an.addr,
              role |-> an.role, added |-> an.added,
              masked |-> utils_fix_addr(an.addr),
              sent |-> IF an.role = "end" THEN legacy_crc_end(an.addr)
                       ELSE utils_fix_addr(an.addr)]
    /\ CarveUnchanged

TranslateNext ==
    \/ TranslateAdd
    \/ TranslateMask

SpecTranslate == TranslateInit /\ [][TranslateNext]_vars

Translated == an.pc = "masked" /\ an.call = "fix_addr"

\* C39 as stated: for a 2 MiB part the additive translation addr + flash_size and the
\* mask translation (addr & 0x1FFFFF) | 0x200000 give the same result for
\* every address the engine places in a command, including exclusive range
\* ends up to and including 0x200000
C39_TranslationsAgree == Translated => an.added = an.masked

\* C39: for a 2 MiB part the two translations agree on every address below
\* 0x200000; on the exclusive end 0x200000 the sum is 0x400000 and the mask
\* gives 0x200000, and the end that the mask-based read_flash_range_crc sends
\* (0x200000 more when the masked end is 0x200000) is the sum again
C39_TranslationsAgreeBelowSize ==
    Translated =>
        /\ an.addr < FlashSize2M => an.added = an.masked
        /\ an.addr = FlashSize2M =>
              /\ an.added = 2 * FlashSize2M
              /\ an.masked = FlashSize2M
        /\ an.sent = an.added

\* the whole-flash end was translated both ways
C39_Witness ==
    Translated /\ an.role = "end" /\ an.addr = FlashSize2M

\* ---------------------------------------------------------------------
\* program_flash under dry_run (cmd_hl_flash.py 116-210)
\* ---------------------------------------------------------------------

\* the commands that change the flash, and those that change its status
\* register
FlashChangingOps == {"FlashErase", "FlashWrite", "FlashWrite4K"}

RegisterChangingOps == {"FlashReg8Write", "FlashReg16Write"}

DryRunStarted == pg.pc # "idle" /\ pg.dry_run /\ pg.pc # "created"

\* a dry run sends no erase and no write
DryRunLeavesFlash ==
    DryRunStarted =>
        /\ \A i \in 1..Len(log) : log[i].op \notin FlashChangingOps
        /\ flash \in {FlashImage, BlankImage}

\* C40: with dry_run=true, program_flash sends no command that changes the
\* device on any protocol: no FlashErase, FlashWrite or FlashWrite4K, and no
\* status-register write
C40_DryRunChangesNothing ==
    DryRunStarted =>
        \A i \in 1..Len(log) :
            log[i].op \notin (FlashChangingOps \cup RegisterChangingOps)

=============================================================================
